---- MODULE Spec2Model ----
(***************************************************************************)
(* A model of the behaviour-sequence engine of wawahejun/Markov:           *)
(*   app/services/markov_analyzer.py   MarkovChainAnalyzer                 *)
(*   enhanced_markov_demo.py           EnhancedMarkovChainAnalyzer         *)
(*   app/services/recommender.py       PrivacyPreservingRecommender        *)
(*                                                                         *)
(* Representation.                                                         *)
(*   - A Python dict whose iteration order is observable (the successor    *)
(*     maps, over which max() breaks ties by insertion order) is a         *)
(*     sequence of <<key, value>> pairs in insertion order.                *)
(*   - A dict whose order is not observable is a function with an          *)
(*     explicit domain.  A defaultdict creates a key only where the code   *)
(*     writes through it.                                                  *)
(*   - Optional[str] is a sequence of length 0 (None) or 1.                *)
(*   - A float that is a ratio of counts is a pair <<num, den>>.           *)
(***************************************************************************)
EXTENDS Integers, Sequences, FiniteSets, TLC

VARIABLES
    analyzer,              \* one MarkovChainAnalyzer: order, transition_matrix, state_counts, user_patterns
    trained,               \* number of add_user_behavior calls made on `analyzer` or `recommender`
    calls,                 \* SpecTraining: the <<user_id, behavior_sequence>> of each call so far
    last,                  \* the last operation: its name, arguments, the analyzer before it, its result
    analyzers,             \* EnhancedMarkovChainAnalyzer.analyzers: order -> MarkovChainAnalyzer
    category_preferences,  \* EnhancedMarkovChainAnalyzer.category_preferences: user -> category -> weight
    built,                 \* build_multi_order_models has run
    recommender,           \* PrivacyPreservingRecommender: markov_analyzer, user_profiles
    importer,              \* a second MarkovChainAnalyzer, the one that imports
    snapshots,             \* what export_model returned on `analyzer`, call after call
    writer,                \* the add_user_behavior call that a thread is inside of, if any
    objects                \* SpecAliasing: the dict objects of a model, of its snapshot and of an importer

vars == <<analyzer, trained, calls, last, analyzers, category_preferences, built, recommender,
          importer, snapshots, writer, objects>>
ensemble == <<analyzers, category_preferences, built>>
exchange == <<importer, snapshots, writer, objects>>

(***************************************************************************)
(* Bounds of the model.                                                    *)
(***************************************************************************)
MaxOrder == 2
MaxLen == 3
MaxTrain == 2
MaxGenLen == 3

Users == {"u1", "u2"}
Alphabet == {"view_a", "click_a"}
ScenarioTokens == <<"view_a", "click_a", "view_b", "click_b", "purchase_b">>
Tokens == Alphabet \cup {ScenarioTokens[i] : i \in 1..Len(ScenarioTokens)}

SeqsUpTo(S, n) == UNION {[1..k -> S] : k \in 0..n}

\* The behaviour sequences a caller trains with and the ones it queries with.
BehaviorSequences == SeqsUpTo(Alphabet, MaxLen) \cup {ScenarioTokens}
QuerySequences == SeqsUpTo(Alphabet, MaxLen)

(***************************************************************************)
(* Python values.                                                          *)
(***************************************************************************)
None == <<>>
Some(x) == <<x>>
NoUser == "<None>"                       \* user_id=None of an Optional[str] parameter
Truthy(user_id) == user_id # NoUser /\ user_id # ""
EmptyDict == [x \in {} |-> 0]

\* An insertion-ordered dict: a sequence of <<key, value>>.
DictKeys(d) == {d[i][1] : i \in 1..Len(d)}
DictIndex(d, k) == CHOOSE i \in 1..Len(d) : d[i][1] = k
DictGet(d, k) == IF k \in DictKeys(d) THEN d[DictIndex(d, k)][2] ELSE 0

\* defaultdict(float): d[k] += 1
DictInc(d, k) ==
    IF k \in DictKeys(d)
    THEN [d EXCEPT ![DictIndex(d, k)] = <<k, @[2] + 1>>]
    ELSE Append(d, <<k, 1>>)

\* sum(transitions.values())
RECURSIVE SumValues(_)
SumValues(d) == IF d = <<>> THEN 0 ELSE d[1][2] + SumValues(Tail(d))

\* defaultdict(lambda: defaultdict(float)): table[current_state][next_state] += 1
TableInc(table, current_state, next_state) ==
    IF current_state \in DOMAIN table
    THEN [table EXCEPT ![current_state] = DictInc(@, next_state)]
    ELSE table @@ (current_state :> DictInc(<<>>, next_state))

\* defaultdict(int): state_counts[current_state] += 1
CountIncOnce(counts, current_state) ==
    IF current_state \in DOMAIN counts
    THEN counts
    ELSE counts @@ (current_state :> 1)

CountInc(counts, current_state) ==
    IF current_state \in DOMAIN counts
    THEN [counts EXCEPT ![current_state] = @ + 1]
    ELSE counts @@ (current_state :> 1)

(***************************************************************************)
(* MarkovChainAnalyzer                                                     *)
(***************************************************************************)
NewAnalyzer(order) ==
    [order |-> order,
     transition_matrix |-> EmptyDict,
     state_counts |-> EmptyDict,
     user_patterns |-> EmptyDict]

\* The body of the training loop, for one window.
RecordTransitionSkipGlobal(an, user_id, current_state, next_state) ==
    [an EXCEPT
        !.user_patterns[user_id] = TableInc(@, current_state, next_state),
        !.state_counts = CountInc(@, current_state)]

RecordTransition(an, user_id, current_state, next_state) ==
    [an EXCEPT
        !.user_patterns[user_id] = TableInc(@, current_state, next_state),
        !.transition_matrix = TableInc(@, current_state, next_state),
        !.state_counts = CountInc(@, current_state)]

\* for i in range(len(behavior_sequence) - self.order), from index i on
RECURSIVE TrainLoop(_, _, _, _)
TrainLoop(an, user_id, behavior_sequence, i) ==
    IF i >= Len(behavior_sequence) - an.order
    THEN an
    ELSE TrainLoop(
            RecordTransition(an, user_id,
                SubSeq(behavior_sequence, i + 1, i + an.order),
                behavior_sequence[i + an.order + 1]),
            user_id, behavior_sequence, i + 1)

\* if user_id not in self.user_patterns: self.user_patterns[user_id] = defaultdict(...)
EnsureUser(an, user_id) ==
    IF user_id \in DOMAIN an.user_patterns
    THEN an
    ELSE [an EXCEPT !.user_patterns = @ @@ (user_id :> EmptyDict)]

add_user_behavior_SkipFirst(an, user_id, behavior_sequence) ==
    IF Len(behavior_sequence) < an.order + 1
    THEN an
    ELSE TrainLoop(EnsureUser(an, user_id), user_id, behavior_sequence, 1)

add_user_behavior_EagerUser(an, user_id, behavior_sequence) ==
    IF Len(behavior_sequence) < an.order + 1
    THEN EnsureUser(an, user_id)
    ELSE TrainLoop(EnsureUser(an, user_id), user_id, behavior_sequence, 0)

add_user_behavior(an, user_id, behavior_sequence) ==
    IF Len(behavior_sequence) < an.order + 1
    THEN an
    ELSE TrainLoop(EnsureUser(an, user_id), user_id, behavior_sequence, 0)

\* A selection that gives a user without a table an empty table.
SelectMatrixNoFallback(an, user_id) ==
    IF Truthy(user_id)
    THEN IF user_id \in DOMAIN an.user_patterns
         THEN an.user_patterns[user_id]
         ELSE EmptyDict
    ELSE an.transition_matrix

\* Lines 52-55: the table a probability query reads.
SelectMatrix(an, user_id) ==
    IF Truthy(user_id) /\ user_id \in DOMAIN an.user_patterns
    THEN an.user_patterns[user_id]
    ELSE an.transition_matrix

\* total_count = sum(transitions.values()), of one context of the selected table
TotalCountAllContexts(matrix, current_state) ==
    LET RECURSIVE SumOver(_)
        SumOver(S) ==
            IF S = {} THEN 0
            ELSE LET c == CHOOSE c \in S : TRUE
                 IN SumValues(matrix[c]) + SumOver(S \ {c})
    IN SumOver(DOMAIN matrix)

TotalCount(matrix, current_state) == SumValues(matrix[current_state])

\* The probabilities dict: context -> next_state -> count / total_count,
\* the quotient kept as <<count, total_count>>.
calculate_transition_probabilities(an, user_id) ==
    LET matrix == SelectMatrix(an, user_id)
    IN [current_state \in {c \in DOMAIN matrix : TotalCount(matrix, c) > 0} |->
            [next_state \in DictKeys(matrix[current_state]) |->
                <<DictGet(matrix[current_state], next_state),
                  TotalCount(matrix, current_state)>>]]

\* max(probabilities.items(), key=lambda x: x[1])[0]: the first item, in
\* insertion order, whose value no other item exceeds.
MaxFirst(d) ==
    LET i == CHOOSE i \in 1..Len(d) :
                /\ \A j \in 1..Len(d) : d[j][2] <= d[i][2]
                /\ \A j \in 1..(i - 1) : d[j][2] < d[i][2]
    IN d[i][1]

\* tuple(current_sequence[-self.order:])
CurrentStateFromHead(current_sequence, order) ==
    SubSeq(current_sequence, 1, order)

CurrentState(current_sequence, order) ==
    SubSeq(current_sequence, Len(current_sequence) - order + 1, Len(current_sequence))

\* if probabilities: return max(...)[0]; return None
PickMax(probabilities) ==
    IF probabilities # <<>> THEN Some(MaxFirst(probabilities)) ELSE None

predict_next_behavior_GlobalFirst(an, user_id, current_sequence) ==
    IF Len(current_sequence) < an.order
    THEN None
    ELSE LET current_state == CurrentState(current_sequence, an.order)
         IN IF current_state \in DOMAIN an.transition_matrix
            THEN PickMax(an.transition_matrix[current_state])
            ELSE IF /\ user_id \in DOMAIN an.user_patterns
                    /\ current_state \in DOMAIN an.user_patterns[user_id]
                 THEN PickMax(an.user_patterns[user_id][current_state])
                 ELSE None

predict_next_behavior(an, user_id, current_sequence) ==
    IF Len(current_sequence) < an.order
    THEN None
    ELSE LET current_state == CurrentState(current_sequence, an.order)
         IN IF /\ user_id \in DOMAIN an.user_patterns
               /\ current_state \in DOMAIN an.user_patterns[user_id]
            THEN PickMax(an.user_patterns[user_id][current_state])
            ELSE IF current_state \in DOMAIN an.transition_matrix
                 THEN PickMax(an.transition_matrix[current_state])
                 ELSE None

\* for _ in range(length - 1): with `remaining` iterations left
RECURSIVE GenerateLoop(_, _, _, _, _)
GenerateLoop(an, user_id, sequence, current_sequence, remaining) ==
    IF remaining <= 0
    THEN sequence
    ELSE LET next_behavior == predict_next_behavior(an, user_id, current_sequence)
         IN IF next_behavior = None
            THEN sequence
            ELSE LET appended == Append(current_sequence, next_behavior[1])
                     window == IF Len(appended) > an.order THEN Tail(appended) ELSE appended
                 IN GenerateLoop(an, user_id, Append(sequence, next_behavior[1]),
                                 window, remaining - 1)

generate_behavior_sequence_OneMore(an, user_id, start_behavior, length) ==
    GenerateLoop(an, user_id, <<start_behavior>>, <<start_behavior>>, length)

generate_behavior_sequence_FullWindow(an, user_id, start_behavior, length) ==
    GenerateLoop(an, user_id, <<start_behavior>>,
                 [i \in 1..an.order |-> start_behavior], length - 1)

generate_behavior_sequence(an, user_id, start_behavior, length) ==
    GenerateLoop(an, user_id, <<start_behavior>>, <<start_behavior>>, length - 1)

(***************************************************************************)
(* Strings with '_' and exact arithmetic.                                  *)
(*                                                                         *)
(* A string that is built with '_' and taken apart with split('_') is the  *)
(* sequence of its '_'-free segments: "ADD_TO_CART" is <<"ADD","TO",       *)
(* "CART">>.  f"{a}_{b}" is then a \o b, and s.split('_') is s itself.     *)
(* A float of the prediction arithmetic is a fraction <<n, d>>, d > 0, in  *)
(* lowest terms.                                                           *)
(***************************************************************************)
JoinUnderscore(a, b) == a \o b
SplitUnderscore(s) == s

RECURSIVE GCD(_, _)
GCD(a, b) == IF b = 0 THEN a ELSE GCD(b, a % b)

Rat(n, d) == IF n = 0 THEN <<0, 1>> ELSE <<n \div GCD(n, d), d \div GCD(n, d)>>
RatAdd(x, y) == Rat(x[1] * y[2] + y[1] * x[2], x[2] * y[2])
RatSub(x, y) == Rat(x[1] * y[2] - y[1] * x[2], x[2] * y[2])
RatMul(x, y) == Rat(x[1] * y[1], x[2] * y[2])
RatDiv(x, y) == Rat(x[1] * y[2], x[2] * y[1])
RatZero == <<0, 1>>
RatOne == <<1, 1>>

\* sum(d.values()) of a dict of fractions
RECURSIVE RatSum(_, _)
RatSum(d, keys) ==
    IF keys = {} THEN RatZero
    ELSE LET k == CHOOSE k \in keys : TRUE
         IN RatAdd(d[k], RatSum(d, keys \ {k}))

(***************************************************************************)
(* EnhancedMarkovChainAnalyzer                                             *)
(***************************************************************************)
\* __init__: one analyzer per order in 1..max_order
NewEnsemble(max_order) == [order \in 1..max_order |-> NewAnalyzer(order)]

\* f"{b['behavior_type']}_{b['item_id']}_{b['category']}"
BehaviorToken(b) ==
    JoinUnderscore(JoinUnderscore(b.behavior_type, b.item_id), <<b.category>>)

BehaviorSequence(user_behaviors) ==
    [i \in 1..Len(user_behaviors) |-> BehaviorToken(user_behaviors[i])]

\* The inner loop of build_multi_order_models for one order: the users of
\* the behaviors dict in its order, from position i on.
RECURSIVE BuildOrder(_, _, _)
BuildOrder(an, behaviors, i) ==
    IF i > Len(behaviors)
    THEN an
    ELSE LET user_id == behaviors[i][1]
             behavior_sequence == BehaviorSequence(behaviors[i][2])
         IN BuildOrder(
                IF Len(behavior_sequence) > an.order
                THEN add_user_behavior(an, user_id, behavior_sequence)
                ELSE an,
                behaviors, i + 1)

build_multi_order_models(ans, behaviors) ==
    [order \in DOMAIN ans |-> BuildOrder(ans[order], behaviors, 1)]

\* predictions[next_state] += factor * prob, for every next_state of probs
AddScores(predictions, probs, factor) ==
    [next_state \in DOMAIN predictions \cup DOMAIN probs |->
        RatAdd(IF next_state \in DOMAIN predictions THEN predictions[next_state] ELSE RatZero,
               IF next_state \in DOMAIN probs
               THEN RatMul(factor, Rat(probs[next_state][1], probs[next_state][2]))
               ELSE RatZero)]

\* The body of hybrid_prediction's loop for one order.
HybridOrder(predictions, an, user_id, recent_behaviors, alpha_global) ==
    IF Len(recent_behaviors) < an.order
    THEN predictions
    ELSE LET global_probs == calculate_transition_probabilities(an, NoUser)
             current_state == CurrentState(recent_behaviors, an.order)
             weight == <<1, an.order>>
             with_global ==
                IF current_state \in DOMAIN global_probs
                THEN AddScores(predictions, global_probs[current_state],
                               RatMul(alpha_global, weight))
                ELSE predictions
             user_probs == calculate_transition_probabilities(an, user_id)
         IN IF current_state \in DOMAIN user_probs
            THEN AddScores(with_global, user_probs[current_state],
                           RatMul(RatSub(RatOne, alpha_global), weight))
            ELSE with_global

\* for order in range(1, self.max_order + 1), from `order` on
RECURSIVE HybridLoop(_, _, _, _, _, _)
HybridLoop(predictions, ans, user_id, recent_behaviors, alpha_global, order) ==
    IF order \notin DOMAIN ans
    THEN predictions
    ELSE HybridLoop(
            HybridOrder(predictions, ans[order], user_id, recent_behaviors, alpha_global),
            ans, user_id, recent_behaviors, alpha_global, order + 1)

\* total = sum(d.values()); if total > 0: {k: v / total}
Normalize(d) ==
    LET total == RatSum(d, DOMAIN d)
    IN IF total[1] > 0
       THEN [k \in DOMAIN d |-> RatDiv(d[k], total)]
       ELSE d

\* The returned dict; its order (by descending probability) is not kept.
hybrid_prediction(ans, user_id, recent_behaviors, alpha_global) ==
    Normalize(HybridLoop(EmptyDict, ans, user_id, recent_behaviors, alpha_global, 1))

DefaultAlphaGlobal == <<3, 10>>

\* preferences.get(category, 1.0)
PreferenceWeight(preferences, category) ==
    IF category \in DOMAIN preferences THEN preferences[category] ELSE RatOne

category_aware_prediction(ans, prefs, user_id, recent_behaviors) ==
    LET base_predictions == hybrid_prediction(ans, user_id, recent_behaviors, DefaultAlphaGlobal)
        preferences == IF user_id \in DOMAIN prefs THEN prefs[user_id] ELSE EmptyDict
        kept == {behavior \in DOMAIN base_predictions : Len(SplitUnderscore(behavior)) >= 3}
        adjusted_predictions ==
            [behavior \in kept |->
                RatMul(base_predictions[behavior],
                       PreferenceWeight(preferences, SplitUnderscore(behavior)[3]))]
    IN Normalize(adjusted_predictions)

(***************************************************************************)
(* The analyzer as a state machine.                                        *)
(***************************************************************************)
\* PrivacyPreservingRecommender.__init__: an order-2 analyzer and no profile.
\* The key and the cipher made from it never change.
NewRecommender == [markov_analyzer |-> NewAnalyzer(2), user_profiles |-> EmptyDict]

\* The objects of two analyzers and of one snapshot.  A successor map is an
\* object of the heap, named by its index; a table maps a context to the
\* name of its successor map, so that two tables can hold the same map.
NewObjects(order) ==
    [heap |-> <<>>,
     model |-> NewAnalyzer(order),
     snapshot |-> None,
     at_export |-> None,
     after_model_call |-> None,
     importer |-> None,
     importer_trained |-> 0]

NoOp == [op |-> "init", user_id |-> NoUser, seq |-> <<>>, length |-> 0,
         pre |-> NewAnalyzer(1), result |-> None]

Init ==
    /\ \E order \in 1..MaxOrder : analyzer = NewAnalyzer(order)
    /\ trained = 0
    /\ calls = <<>>
    /\ last = NoOp
    /\ analyzers = NewEnsemble(MaxOrder)
    /\ category_preferences = EmptyDict
    /\ built = FALSE
    /\ recommender = NewRecommender
    /\ importer = NewAnalyzer(2)
    /\ snapshots = <<>>
    /\ writer = None
    /\ objects = NewObjects(analyzer.order)

\* The queries write nothing but `last`, so the states that follow a query are
\* those that follow the state it was made in: a run is followed up to its
\* first query.
BeforeQuery == last.op = "init"

\* A training call; Spec keeps no record of it (SpecTraining does).
Train(user_id, behavior_sequence) ==
    /\ BeforeQuery
    /\ trained < MaxTrain
    /\ analyzer' = add_user_behavior(analyzer, user_id, behavior_sequence)
    /\ trained' = trained + 1
    /\ UNCHANGED <<calls, last, ensemble, recommender, exchange>>

CalculateTransitionProbabilities(user_id) ==
    /\ BeforeQuery
    /\ last' = [op |-> "calculate_transition_probabilities", user_id |-> user_id,
                seq |-> <<>>, length |-> 0, pre |-> analyzer,
                result |-> calculate_transition_probabilities(analyzer, user_id)]
    /\ UNCHANGED <<analyzer, trained, calls, ensemble, recommender, exchange>>

PredictNextBehavior(user_id, current_sequence) ==
    /\ BeforeQuery
    /\ last' = [op |-> "predict_next_behavior", user_id |-> user_id,
                seq |-> current_sequence, length |-> 0, pre |-> analyzer,
                result |-> predict_next_behavior(analyzer, user_id, current_sequence)]
    /\ UNCHANGED <<analyzer, trained, calls, ensemble, recommender, exchange>>

GenerateBehaviorSequence(user_id, start_behavior, length) ==
    /\ BeforeQuery
    /\ last' = [op |-> "generate_behavior_sequence", user_id |-> user_id,
                seq |-> <<start_behavior>>, length |-> length, pre |-> analyzer,
                result |-> generate_behavior_sequence(analyzer, user_id, start_behavior, length)]
    /\ UNCHANGED <<analyzer, trained, calls, ensemble, recommender, exchange>>

Next ==
    \/ \E user_id \in Users, seq \in BehaviorSequences : Train(user_id, seq)
    \/ \E user_id \in Users \cup {NoUser} : CalculateTransitionProbabilities(user_id)
    \/ \E user_id \in Users, seq \in QuerySequences : PredictNextBehavior(user_id, seq)
    \/ \E user_id \in Users, start \in Alphabet, length \in 1..MaxGenLen :
            GenerateBehaviorSequence(user_id, start, length)

Spec == Init /\ [][Next]_vars

(***************************************************************************)
(* Training alone, each call kept with the analyzer it was made on.        *)
(***************************************************************************)
AddUserBehavior(user_id, behavior_sequence) ==
    /\ Len(calls) < MaxTrain
    /\ analyzer' = add_user_behavior(analyzer, user_id, behavior_sequence)
    /\ calls' = Append(calls, <<user_id, behavior_sequence>>)
    /\ last' = [op |-> "add_user_behavior", user_id |-> user_id,
                seq |-> behavior_sequence, length |-> 0,
                pre |-> analyzer, result |-> None]
    /\ UNCHANGED <<trained, ensemble, recommender, exchange>>

NextTraining ==
    \E user_id \in Users, seq \in BehaviorSequences : AddUserBehavior(user_id, seq)

SpecTraining == Init /\ [][NextTraining]_vars

(***************************************************************************)
(* The multi-order ensemble as a state machine: the models are built once  *)
(* from a behaviors dict, preferences are set per user, and one prediction *)
(* is asked and kept in `last`.                                            *)
(***************************************************************************)
\* Behaviors of type 'VIEW': of the item 'phone_001' (electronics) and of an
\* item 'book' (books), whose id has no '_'.
EnsembleBehaviors ==
    { [behavior_type |-> <<"VIEW">>, item_id |-> <<"phone", "001">>, category |-> "electronics"],
      [behavior_type |-> <<"VIEW">>, item_id |-> <<"book">>, category |-> "books"] }

EnsembleTokens == {BehaviorToken(b) : b \in EnsembleBehaviors}

UserBehaviors == SeqsUpTo(EnsembleBehaviors, MaxLen)

\* A behaviors dict in its insertion order: <<user_id, user_behaviors>> items
\* with distinct keys.
BehaviorDicts ==
    {<<>>}
    \cup {<< <<u, bs>> >> : u \in Users, bs \in UserBehaviors}
    \cup {<< <<i[1], bs>>, <<i[2], cs>> >> :
            i \in {j \in Users \X Users : j[1] # j[2]},
            bs \in UserBehaviors, cs \in UserBehaviors}

RecentBehaviors == SeqsUpTo(EnsembleTokens, MaxOrder)

AlphaGlobals == {<<0, 1>>, DefaultAlphaGlobal, <<1, 1>>}

\* {'electronics': 1.5, 'books': 0.6} and a dict without a weight for books
PreferenceDicts ==
    { [category \in {"electronics", "books"} |->
            IF category = "electronics" THEN <<3, 2>> ELSE <<3, 5>>],
      [category \in {"electronics"} |-> <<3, 2>>] }

BuildMultiOrderModels(behaviors) ==
    /\ BeforeQuery
    /\ ~built
    /\ analyzers' = build_multi_order_models(analyzers, behaviors)
    /\ built' = TRUE
    /\ UNCHANGED <<analyzer, trained, calls, last, category_preferences, recommender, exchange>>

SetCategoryPreferences(user_id, preferences) ==
    /\ BeforeQuery
    /\ category_preferences' =
            [u \in DOMAIN category_preferences \cup {user_id} |->
                IF u = user_id THEN preferences ELSE category_preferences[u]]
    /\ UNCHANGED <<analyzer, trained, calls, last, analyzers, built, recommender, exchange>>

HybridPrediction(user_id, recent_behaviors, alpha_global) ==
    /\ BeforeQuery
    /\ last' = [op |-> "hybrid_prediction", user_id |-> user_id,
                seq |-> recent_behaviors, length |-> 0, pre |-> analyzer,
                alpha_global |-> alpha_global,
                result |-> hybrid_prediction(analyzers, user_id, recent_behaviors, alpha_global)]
    /\ UNCHANGED <<analyzer, trained, calls, ensemble, recommender, exchange>>

CategoryAwarePrediction(user_id, recent_behaviors) ==
    /\ BeforeQuery
    /\ last' = [op |-> "category_aware_prediction", user_id |-> user_id,
                seq |-> recent_behaviors, length |-> 0, pre |-> analyzer,
                result |-> category_aware_prediction(analyzers, category_preferences,
                                                     user_id, recent_behaviors)]
    /\ UNCHANGED <<analyzer, trained, calls, ensemble, recommender, exchange>>

NextEnsemble ==
    \/ \E behaviors \in BehaviorDicts : BuildMultiOrderModels(behaviors)
    \/ \E user_id \in Users, recent \in RecentBehaviors, alpha_global \in AlphaGlobals :
            HybridPrediction(user_id, recent, alpha_global)

SpecEnsemble == Init /\ [][NextEnsemble]_vars

NextCategory ==
    \/ \E behaviors \in BehaviorDicts : BuildMultiOrderModels(behaviors)
    \/ \E user_id \in Users, preferences \in PreferenceDicts :
            SetCategoryPreferences(user_id, preferences)
    \/ \E user_id \in Users, recent \in RecentBehaviors :
            CategoryAwarePrediction(user_id, recent)

SpecCategory == Init /\ [][NextCategory]_vars

(***************************************************************************)
(* PrivacyPreservingRecommender: the privacy transform.                    *)
(*                                                                         *)
(* A Python value of an event is a record: a str is plain text, a Fernet   *)
(* token of a text (with the randomness of its encryption in n) or the     *)
(* first 16 hex digits of the SHA-256 of a text; an int carries its value  *)
(* in n.  A timestamp is a number of minutes.  An Optional field is None   *)
(* or Some(value).                                                         *)
(***************************************************************************)
Str(text) == [n |-> 0, text |-> text, type |-> "str", form |-> "plain"]
IntValue(i) == [n |-> i, text |-> "", type |-> "int", form |-> "plain"]

\* isinstance(value, str) and len(value) > 0
IsNonEmptyStr(value) == value.type = "str" /\ ~(value.form = "plain" /\ value.text = "")

\* self.cipher.encrypt(value.encode()).decode() and the decryption of a token
Encrypt(value, nonce) == [n |-> nonce, text |-> value.text, type |-> "str", form |-> "fernet"]
Decrypt(token) == Str(token.text)
IsCiphertext(value) == value.type = "str" /\ value.form = "fernet"

\* hashlib.sha256(user_id.encode()).hexdigest()[:16]
anonymize_user_id(user_id) ==
    [n |-> 0, text |-> user_id.text, type |-> "str", form |-> "sha256_16"]

MetadataKeys == {"Email", "page"}

\* k.lower()
Lower(k) == IF k = "Email" THEN "email" ELSE k

sensitive_fields == {"email", "phone", "address", "name", "ip"}

\* `not x` of an Optional value that is None, an empty dict or an empty str
Falsy(optional) ==
    \/ optional = None
    \/ optional[1] = EmptyDict
    \/ optional[1] = Str("")

remove_identifiers(metadata) ==
    IF Falsy(metadata)
    THEN metadata
    ELSE Some([k \in {k \in DOMAIN metadata[1] : Lower(k) \notin sensitive_fields} |->
                    metadata[1][k]])

MaxNoiseMinutes == 30

\* noise_minutes is the outcome of random.randint(-30, 30)
add_differential_privacy_noise(behavior, noise_minutes) ==
    [user_id |-> anonymize_user_id(behavior.user_id),
     behavior_type |-> behavior.behavior_type,
     item_id |-> behavior.item_id,
     category |-> behavior.category,
     timestamp |-> behavior.timestamp + noise_minutes,
     metadata |-> behavior.metadata]

\* The randomness of the encryption of one field of a call: every call of
\* cipher.encrypt draws its own.
FieldNonce(nonce, field) ==
    nonce * 10 + (CASE field = "item_id" -> 1
                    [] field = "category" -> 2
                    [] field = "Email" -> 3
                    [] OTHER -> 4)

encrypt_behavior_data_AllStrings(behavior, nonce) ==
    [user_id |-> anonymize_user_id(behavior.user_id),
     behavior_type |-> behavior.behavior_type,
     item_id |-> Encrypt(behavior.item_id, FieldNonce(nonce, "item_id")),
     category |-> IF ~Falsy(behavior.category)
                  THEN Some(Encrypt(behavior.category[1], FieldNonce(nonce, "category")))
                  ELSE None,
     timestamp |-> behavior.timestamp,
     metadata |-> Some(IF ~Falsy(behavior.metadata)
                       THEN [key \in DOMAIN behavior.metadata[1] |->
                                IF behavior.metadata[1][key].type = "str"
                                THEN Encrypt(behavior.metadata[1][key], FieldNonce(nonce, key))
                                ELSE behavior.metadata[1][key]]
                       ELSE EmptyDict)]

encrypt_behavior_data(behavior, nonce) ==
    [user_id |-> anonymize_user_id(behavior.user_id),
     behavior_type |-> behavior.behavior_type,
     item_id |-> Encrypt(behavior.item_id, FieldNonce(nonce, "item_id")),
     category |-> IF ~Falsy(behavior.category)
                  THEN Some(Encrypt(behavior.category[1], FieldNonce(nonce, "category")))
                  ELSE None,
     timestamp |-> behavior.timestamp,
     metadata |-> Some(IF ~Falsy(behavior.metadata)
                       THEN [key \in DOMAIN behavior.metadata[1] |->
                                IF IsNonEmptyStr(behavior.metadata[1][key])
                                THEN Encrypt(behavior.metadata[1][key], FieldNonce(nonce, key))
                                ELSE behavior.metadata[1][key]]
                       ELSE EmptyDict)]

\* The anonymized copy of privacy level 1.
AnonymizedCopyKeepEmail(behavior) ==
    [user_id |-> anonymize_user_id(behavior.user_id),
     behavior_type |-> behavior.behavior_type,
     item_id |-> behavior.item_id,
     category |-> behavior.category,
     timestamp |-> behavior.timestamp,
     metadata |-> IF Falsy(behavior.metadata) THEN behavior.metadata
                  ELSE Some([k \in {k \in DOMAIN behavior.metadata[1] : k \notin sensitive_fields} |->
                                behavior.metadata[1][k]])]

AnonymizedCopy(behavior) ==
    [user_id |-> anonymize_user_id(behavior.user_id),
     behavior_type |-> behavior.behavior_type,
     item_id |-> behavior.item_id,
     category |-> behavior.category,
     timestamp |-> behavior.timestamp,
     metadata |-> remove_identifiers(behavior.metadata)]

\* The call's outcome: the event returned and the caller's event after the
\* call.  No branch writes to the event it was given.
apply_privacy_protection_AnonymizeOthers(behavior, privacy_level, noise_minutes, nonce) ==
    [returned |->
        CASE privacy_level = 0 -> behavior
          [] privacy_level = 1 -> AnonymizedCopy(behavior)
          [] privacy_level = 2 -> add_differential_privacy_noise(behavior, noise_minutes)
          [] privacy_level = 3 -> encrypt_behavior_data(behavior, nonce)
          [] OTHER -> AnonymizedCopy(behavior),
     behavior |-> behavior]

apply_privacy_protection(behavior, privacy_level, noise_minutes, nonce) ==
    [returned |->
        CASE privacy_level = 0 -> behavior
          [] privacy_level = 1 -> AnonymizedCopy(behavior)
          [] privacy_level = 2 -> add_differential_privacy_noise(behavior, noise_minutes)
          [] privacy_level = 3 -> encrypt_behavior_data(behavior, nonce)
          [] OTHER -> behavior,
     behavior |-> behavior]

(***************************************************************************)
(* The privacy transform applied once to an event.                         *)
(***************************************************************************)
MaxLevel == 4
PrivacyLevels == (0 - 1)..MaxLevel
NoiseMinutes == (0 - MaxNoiseMinutes)..MaxNoiseMinutes
Nonces == {1, 2}

MetadataValues == {Str("alice"), Str(""), IntValue(7)}

Metadatas ==
    {None} \cup
    {Some(d) : d \in UNION {[keys -> MetadataValues] : keys \in SUBSET MetadataKeys}}

Events ==
    [user_id : {Str("u1"), Str("u2")},
     behavior_type : {"view", "add_to_cart"},
     item_id : {Str("item1"), Str("phone_001")},
     category : {None, Some(Str("")), Some(Str("books"))},
     metadata : Metadatas,
     timestamp : {0, 1440}]

\* One call, on any event at any level; the draws that a level does not
\* make are not inputs of the call.
ApplyPrivacyProtection ==
    /\ BeforeQuery
    /\ \E behavior \in Events, privacy_level \in PrivacyLevels :
        \E noise_minutes \in IF privacy_level = 2 THEN NoiseMinutes ELSE {0},
           nonce \in IF privacy_level = 3 THEN Nonces ELSE {1} :
            last' = [op |-> "_apply_privacy_protection", behavior |-> behavior,
                     privacy_level |-> privacy_level,
                     result |-> apply_privacy_protection(behavior, privacy_level,
                                                         noise_minutes, nonce)]
    /\ UNCHANGED <<analyzer, trained, calls, ensemble, recommender, exchange>>

NextPrivacy == ApplyPrivacyProtection

SpecPrivacy == Init /\ [][NextPrivacy]_vars

(***************************************************************************)
(* PrivacyPreservingRecommender: profiles and scores.                      *)
(***************************************************************************)
\* The '_'-free segments of the texts that have a '_'; any other text of the
\* model is one segment.
TextSegments(text) ==
    CASE text = "add_to_cart" -> <<Str("add"), Str("to"), Str("cart")>>
      [] text = "phone_001" -> <<Str("phone"), Str("001")>>
      [] OTHER -> <<Str(text)>>

\* The segments of an item id.  An anonymized or encrypted id is kept whole.
ItemSegments(item_id) ==
    IF item_id.form = "plain" THEN TextSegments(item_id.text) ELSE <<item_id>>

\* [f"{behavior.behavior_type.value}_{behavior.item_id}"]: the one token
behavior_to_sequence_ThreeTokens(behavior) ==
    LET token == JoinUnderscore(TextSegments(behavior.behavior_type),
                                ItemSegments(behavior.item_id))
    IN <<token, token, token>>

behavior_to_sequence(behavior) ==
    <<JoinUnderscore(TextSegments(behavior.behavior_type), ItemSegments(behavior.item_id))>>

\* predicted_behavior.split('_', 1): the first segment and the rest
parse_predicted_behavior(predicted_behavior) ==
    IF Len(predicted_behavior) >= 2
    THEN [behavior_type |-> <<predicted_behavior[1]>>, item_id |-> Tail(predicted_behavior)]
    ELSE [behavior_type |-> <<Str("unknown")>>, item_id |-> predicted_behavior]

\* The profile's created_at and updated_at are written and never read; they
\* are left out.
update_user_profile(user_profiles, user_id, behavior, privacy_level) ==
    LET profile == IF user_id \in DOMAIN user_profiles
                   THEN user_profiles[user_id]
                   ELSE [behaviors |-> <<>>, preferences |-> EmptyDict,
                         privacy_level |-> privacy_level]
        category == behavior.category[1]
        preferences ==
            IF Falsy(behavior.category)
            THEN profile.preferences
            ELSE (category :> (IF category \in DOMAIN profile.preferences
                               THEN profile.preferences[category] ELSE 0) + 1)
                 @@ profile.preferences
    IN (user_id :> [behaviors |-> Append(profile.behaviors, behavior),
                    preferences |-> preferences,
                    privacy_level |-> profile.privacy_level])
       @@ user_profiles

recommender_add_user_behavior(rec, user_id, behavior, privacy_level, noise_minutes, nonce) ==
    LET processed_behavior ==
            apply_privacy_protection(behavior, privacy_level, noise_minutes, nonce).returned
    IN [markov_analyzer |-> add_user_behavior(rec.markov_analyzer, user_id,
                                              behavior_to_sequence(processed_behavior)),
        user_profiles |-> update_user_profile(rec.user_profiles, user_id,
                                              processed_behavior, privacy_level)]

\* The same call made `times` times in a row, each encryption with its own
\* randomness: the first half of the calls, then the rest on what they left
\* (the comparison has the first half computed before the rest starts).
RECURSIVE AddRepeatedly(_, _, _, _, _, _, _)
AddRepeatedly(rec, user_id, behavior, privacy_level, noise_minutes, nonce, times) ==
    IF times = 0
    THEN rec
    ELSE IF times = 1
         THEN recommender_add_user_behavior(rec, user_id, behavior, privacy_level,
                                            noise_minutes, nonce)
         ELSE LET first_half == AddRepeatedly(rec, user_id, behavior, privacy_level,
                                              noise_minutes, nonce, times \div 2)
              IN IF first_half = rec
                 THEN AddRepeatedly(rec, user_id, behavior, privacy_level,
                                    noise_minutes, nonce + times \div 2,
                                    times - times \div 2)
                 ELSE AddRepeatedly(first_half, user_id, behavior, privacy_level,
                                    noise_minutes, nonce + times \div 2,
                                    times - times \div 2)

\* class BehaviorType(str, Enum): the values BehaviorType(value) accepts
BehaviorTypeValues ==
    {"click", "view", "like", "share", "purchase", "add_to_cart", "search", "follow"}

\* behavior_weights.get(BehaviorType(behavior_type), 0.5)
BehaviorWeight(behavior_type) ==
    CASE behavior_type = "purchase" -> <<1, 1>>
      [] behavior_type = "add_to_cart" -> <<4, 5>>
      [] behavior_type = "like" -> <<3, 5>>
      [] behavior_type = "click" -> <<2, 5>>
      [] behavior_type = "view" -> <<3, 10>>
      [] OTHER -> <<1, 2>>

\* np.exp(num / den): the power series summed term by term in millionths,
\* the sum kept to four decimal places.
ExpScale == 1000000
ExpUnit == 10000
ExpTerms == 20

RECURSIVE ExpSeries(_, _, _, _)
ExpSeries(term, num, den, k) ==
    IF k > ExpTerms
    THEN 0
    ELSE term + ExpSeries((term * num) \div (den * k), num, den, k + 1)

np_exp(num, den) ==
    Rat(ExpSeries(ExpScale, num, den, 1) \div (ExpScale \div ExpUnit), ExpUnit)

MinutesPerDay == 1440

\* (datetime.utcnow() - timestamp).days: whole days, rounded down
DaysDiff(now, timestamp) == (now - timestamp) \div MinutesPerDay

DefaultHalfLifeDays == 7

calculate_time_factor(timestamp, now, half_life_days) ==
    LET days_diff == DaysDiff(now, timestamp)
    IN np_exp(0 - days_diff, half_life_days)

categories == <<"electronics", "clothing", "books", "food", "sports">>

\* categories[hash(item_id) % len(categories)]: str hashes are salted per
\* process, so the index is any of 0..4; hash_index is the one of this run.
get_item_category(item_id, hash_index) == Str(categories[hash_index + 1])

RECURSIVE SumPreferences(_, _)
SumPreferences(preferences, keys) ==
    IF keys = {} THEN 0
    ELSE LET k == CHOOSE k \in keys : TRUE
         IN preferences[k] + SumPreferences(preferences, keys \ {k})

calculate_preference_factor_Flat(rec, user_id, item_id, hash_index) == RatOne

calculate_preference_factor(rec, user_id, item_id, hash_index) ==
    IF user_id \notin DOMAIN rec.user_profiles
    THEN RatOne
    ELSE LET preferences == rec.user_profiles[user_id].preferences
             total_behaviors == SumPreferences(preferences, DOMAIN preferences)
             item_category == get_item_category(item_id, hash_index)
         IN IF total_behaviors = 0
            THEN RatOne
            ELSE IF item_category \in DOMAIN preferences
                 THEN RatAdd(RatOne, Rat(preferences[item_category], total_behaviors))
                 ELSE RatOne

\* The outcome of a call: the exception it raises ("" for none) and the
\* value it returns.
Returned(value) == [raised |-> "", value |-> value]
Raised(exception) == [raised |-> exception, value |-> RatZero]

calculate_recommendation_score(rec, user_id, behavior_type, item_id, hash_index, recent_behaviors, now) ==
    IF behavior_type \notin BehaviorTypeValues
    THEN Raised("ValueError")
    ELSE LET base_score == <<1, 2>>
             weight == BehaviorWeight(behavior_type)
             time_factor ==
                IF recent_behaviors # <<>>
                THEN calculate_time_factor(recent_behaviors[1].timestamp, now,
                                           DefaultHalfLifeDays)
                ELSE RatOne
             preference_factor ==
                calculate_preference_factor(rec, user_id, item_id, hash_index)
         IN Returned(RatMul(RatMul(RatMul(base_score, weight), time_factor),
                            preference_factor))

\* sum(r.score for r in recommendations)
RECURSIVE SumScores(_)
SumScores(recommendations) ==
    IF recommendations = <<>> THEN RatZero
    ELSE RatAdd(recommendations[1].score, SumScores(Tail(recommendations)))

FullHistory == 50

calculate_confidence_score_DefaultFirst(rec, user_id, recommendations) ==
    IF user_id \notin DOMAIN rec.user_profiles
    THEN <<3, 10>>
    ELSE IF recommendations = <<>>
         THEN RatZero
         ELSE LET behavior_count == Len(rec.user_profiles[user_id].behaviors)
                  history_factor == IF behavior_count < FullHistory
                                    THEN Rat(behavior_count, FullHistory) ELSE RatOne
                  avg_score == RatDiv(SumScores(recommendations),
                                      <<Len(recommendations), 1>>)
              IN RatDiv(RatAdd(history_factor, avg_score), <<2, 1>>)

calculate_confidence_score(rec, user_id, recommendations) ==
    IF recommendations = <<>>
    THEN RatZero
    ELSE IF user_id \in DOMAIN rec.user_profiles
         THEN LET behavior_count == Len(rec.user_profiles[user_id].behaviors)
                  history_factor == IF behavior_count < FullHistory
                                    THEN Rat(behavior_count, FullHistory) ELSE RatOne
                  avg_score == RatDiv(SumScores(recommendations),
                                      <<Len(recommendations), 1>>)
              IN RatDiv(RatAdd(history_factor, avg_score), <<2, 1>>)
         ELSE <<3, 10>>

(***************************************************************************)
(* The recommender as a state machine: behaviors are added, then one of    *)
(* the scoring functions is called and its outcome kept in `last`.         *)
(***************************************************************************)
MaxDays == 14

\* The current time, in minutes, and the timestamps around it.
Clock == (MaxDays + 1) * MinutesPerDay

Timestamps ==
    {Clock - d * MinutesPerDay : d \in 0..MaxDays}
    \cup {Clock + 1, Clock - (MinutesPerDay - 1), Clock - (MinutesPerDay + 1)}

HalfLives == {DefaultHalfLifeDays, 2 * DefaultHalfLifeDays}

ProfileCategories == {None, Some(Str("books")), Some(Str("sports"))}

ProfileEvent(user_id, category) ==
    [user_id |-> Str(user_id), behavior_type |-> "view", item_id |-> Str("item1"),
     category |-> category, metadata |-> None, timestamp |-> Clock]

\* Action kinds: the five of the weight table, one more of the enumeration,
\* and two strings that are not of it.
Kinds == {"purchase", "add_to_cart", "like", "click", "view", "share", "unknown", "add"}

RecentEvent(timestamp) ==
    [user_id |-> Str("u1"), behavior_type |-> "view", item_id |-> Str("item1"),
     category |-> None, metadata |-> None, timestamp |-> timestamp]

RecentLists ==
    {<<>>} \cup {<<RecentEvent(t)>> :
                    t \in {Clock, Clock - DefaultHalfLifeDays * MinutesPerDay, Clock + 1}}

Recommendation(score) == [item_id |-> Str("item1"), score |-> score]

RecommendationLists ==
    { <<>>,
      <<Recommendation(<<1, 2>>)>>,
      <<Recommendation(<<3, 10>>), Recommendation(<<1, 1>>)>> }

RecommenderAddUserBehavior(user_id, behavior, privacy_level, times) ==
    /\ BeforeQuery
    /\ trained < MaxTrain
    /\ recommender' = AddRepeatedly(recommender, user_id, behavior, privacy_level, 0, 1, times)
    /\ trained' = trained + 1
    /\ UNCHANGED <<analyzer, calls, last, ensemble, exchange>>

CalculateTimeFactor ==
    /\ BeforeQuery
    /\ \E timestamp \in Timestamps, half_life_days \in HalfLives :
        last' = [op |-> "_calculate_time_factor", timestamp |-> timestamp, now |-> Clock,
                 half_life_days |-> half_life_days,
                 result |-> calculate_time_factor(timestamp, Clock, half_life_days)]
    /\ UNCHANGED <<analyzer, trained, calls, ensemble, recommender, exchange>>

CalculatePreferenceFactor ==
    /\ BeforeQuery
    /\ \E user_id \in Users, hash_index \in 0..(Len(categories) - 1) :
        last' = [op |-> "_calculate_preference_factor", user_id |-> user_id,
                 item_id |-> Str("item1"), hash_index |-> hash_index,
                 result |-> calculate_preference_factor(recommender, user_id,
                                                        Str("item1"), hash_index)]
    /\ UNCHANGED <<analyzer, trained, calls, ensemble, recommender, exchange>>

CalculateRecommendationScore ==
    /\ BeforeQuery
    /\ \E user_id \in Users, behavior_type \in Kinds,
          hash_index \in 0..(Len(categories) - 1), recent_behaviors \in RecentLists :
        last' = [op |-> "_calculate_recommendation_score", user_id |-> user_id,
                 behavior_type |-> behavior_type, item_id |-> Str("item1"),
                 hash_index |-> hash_index, recent_behaviors |-> recent_behaviors,
                 now |-> Clock,
                 result |-> calculate_recommendation_score(recommender, user_id,
                                behavior_type, Str("item1"), hash_index,
                                recent_behaviors, Clock)]
    /\ UNCHANGED <<analyzer, trained, calls, ensemble, recommender, exchange>>

CalculateConfidenceScore ==
    /\ BeforeQuery
    /\ \E user_id \in Users, recommendations \in RecommendationLists :
        last' = [op |-> "_calculate_confidence_score", user_id |-> user_id,
                 recommendations |-> recommendations,
                 result |-> calculate_confidence_score(recommender, user_id,
                                                       recommendations)]
    /\ UNCHANGED <<analyzer, trained, calls, ensemble, recommender, exchange>>

\* Behaviors are added at level 1 (kept in the clear) and at level 3
\* (encrypted), once or as many times as make a full history.
NextScoring ==
    \/ \E user_id \in Users, category \in ProfileCategories,
          privacy_level \in {1, 3}, times \in {1, FullHistory} :
            RecommenderAddUserBehavior(user_id, ProfileEvent(user_id, category),
                                       privacy_level, times)
    \/ CalculateRecommendationScore

SpecScoring == Init /\ [][NextScoring]_vars

NextFactors ==
    \/ \E user_id \in Users, category \in ProfileCategories,
          privacy_level \in {1, 3}, times \in {1, FullHistory} :
            RecommenderAddUserBehavior(user_id, ProfileEvent(user_id, category),
                                       privacy_level, times)
    \/ CalculateTimeFactor
    \/ CalculatePreferenceFactor
    \/ CalculateConfidenceScore

SpecFactors == Init /\ [][NextFactors]_vars

(***************************************************************************)
(* export_model, import_model and the hash of the model.                   *)
(***************************************************************************)
\* sum(sum(transitions.values()) for transitions in user_matrix.values())
RECURSIVE SumTable(_, _)
SumTable(matrix, states) ==
    IF states = {} THEN 0
    ELSE LET state == CHOOSE c \in states : TRUE
         IN SumValues(matrix[state]) + SumTable(matrix, states \ {state})

\* sum(len(transitions) for transitions in matrix.values())
RECURSIVE SumLens(_, _)
SumLens(matrix, states) ==
    IF states = {} THEN 0
    ELSE LET state == CHOOSE c \in states : TRUE
         IN Len(matrix[state]) + SumLens(matrix, states \ {state})

calculate_model_complexity(matrix) ==
    IF DOMAIN matrix = {}
    THEN RatZero
    ELSE Rat(SumLens(matrix, DOMAIN matrix), Cardinality(DOMAIN matrix))

\* behavior_counts[behavior] += count, over every state of the matrix
RECURSIVE BehaviorCounts(_, _, _)
BehaviorCounts(matrix, states, behavior) ==
    IF states = {} THEN 0
    ELSE LET state == CHOOSE c \in states : TRUE
         IN DictGet(matrix[state], behavior)
                + BehaviorCounts(matrix, states \ {state}, behavior)

\* Counter.most_common(5): the (behavior, count) pairs of the five largest
\* counts.  The tables here hold at most five distinct behaviors, so every
\* pair is among them; the pairs are kept without their order.
MostCommon == 5
top_behaviors(matrix) ==
    LET behaviors == UNION {DictKeys(matrix[state]) : state \in DOMAIN matrix}
    IN {<<behavior, BehaviorCounts(matrix, DOMAIN matrix, behavior)>> :
            behavior \in behaviors}

get_user_behavior_stats_CountStates(an, user_id) ==
    IF user_id \notin DOMAIN an.user_patterns
    THEN EmptyDict
    ELSE LET user_matrix == an.user_patterns[user_id]
         IN [total_behaviors |-> Cardinality(DOMAIN user_matrix),
             unique_states |-> Cardinality(DOMAIN user_matrix),
             top_behaviors |-> top_behaviors(user_matrix),
             model_complexity |-> calculate_model_complexity(user_matrix)]

get_user_behavior_stats(an, user_id) ==
    IF user_id \notin DOMAIN an.user_patterns
    THEN EmptyDict
    ELSE LET user_matrix == an.user_patterns[user_id]
         IN [total_behaviors |-> SumTable(user_matrix, DOMAIN user_matrix),
             unique_states |-> Cardinality(DOMAIN user_matrix),
             top_behaviors |-> top_behaviors(user_matrix),
             model_complexity |-> calculate_model_complexity(user_matrix)]

\* json.dumps(dict(transitions), sort_keys=True): the keys in sorted order,
\* so the text is one per set of (key, value) items.
SortedItems(transitions) ==
    [behavior \in DictKeys(transitions) |-> DictGet(transitions, behavior)]

\* str(state) of a tuple of tokens
StateKey(state) == <<"str", state>>

\* The first 16 hex digits of the SHA-256 of the JSON text of the global
\* matrix; digests of different texts are taken to differ.
generate_model_hash(an) ==
    [form |-> "sha256_16",
     text |-> [state_key \in {StateKey(state) : state \in DOMAIN an.transition_matrix} |->
                    SortedItems(an.transition_matrix[state_key[2]])]]

export_model(an, user_id, now) ==
    IF Truthy(user_id)
    THEN IF user_id \in DOMAIN an.user_patterns
         THEN [order |-> an.order,
               timestamp |-> now,
               model_hash |-> generate_model_hash(an),
               user_id |-> user_id,
               transition_matrix |-> an.user_patterns[user_id],
               stats |-> get_user_behavior_stats(an, user_id)]
         ELSE [order |-> an.order,
               timestamp |-> now,
               model_hash |-> generate_model_hash(an)]
    ELSE [order |-> an.order,
          timestamp |-> now,
          model_hash |-> generate_model_hash(an),
          transition_matrix |-> an.transition_matrix,
          state_counts |-> an.state_counts]

\* model_data.get("order", 2)
DefaultOrder == 2

\* The analyzer after the call and the exception the call ended with, if
\* any.  What is assigned before model_data["transition_matrix"] raises
\* stays assigned.
import_model(an, model_data) ==
    LET ordered == [an EXCEPT !.order = IF "order" \in DOMAIN model_data
                                        THEN model_data.order ELSE DefaultOrder]
    IN IF "user_id" \in DOMAIN model_data
       THEN LET created == [ordered EXCEPT !.user_patterns =
                                [u \in DOMAIN @ \cup {model_data.user_id} |->
                                    IF u = model_data.user_id THEN EmptyDict ELSE @[u]]]
            IN IF "transition_matrix" \in DOMAIN model_data
               THEN [analyzer |-> [created EXCEPT
                                        !.user_patterns[model_data.user_id] =
                                            model_data.transition_matrix],
                     raised |-> ""]
               ELSE [analyzer |-> created, raised |-> "KeyError"]
       ELSE LET reset == [ordered EXCEPT !.transition_matrix = EmptyDict]
            IN IF "transition_matrix" \in DOMAIN model_data
               THEN [analyzer |-> [reset EXCEPT !.transition_matrix =
                                        model_data.transition_matrix],
                     raised |-> ""]
               ELSE [analyzer |-> reset, raised |-> "KeyError"]

(***************************************************************************)
(* Snapshots: `analyzer` is trained, then asked for snapshots of the       *)
(* global model and of users' models, and one of the snapshots is imported *)
(* into the second analyzer, which is fresh.                               *)
(***************************************************************************)
MaxSnapshots == 2
ExportTimes == 0..1
ExportScopes == {NoUser} \cup Users

\* np.datetime64('now') never runs backwards from one export to the next.
ExportModel ==
    /\ last.op \in {"init", "export_model"}
    /\ Len(snapshots) < MaxSnapshots
    /\ \E user_id \in ExportScopes, now \in ExportTimes :
        /\ snapshots # <<>> => now >= snapshots[Len(snapshots)].model_data.timestamp
        /\ snapshots' = Append(snapshots,
                               [user_id |-> user_id,
                                model_data |-> export_model(analyzer, user_id, now)])
        /\ last' = [op |-> "export_model", user_id |-> user_id,
                    result |-> export_model(analyzer, user_id, now)]
    /\ UNCHANGED <<analyzer, trained, calls, ensemble, recommender, importer, writer, objects>>

ImportModel ==
    /\ last.op = "export_model"
    /\ \E i \in DOMAIN snapshots :
        LET done == import_model(importer, snapshots[i].model_data)
        IN /\ importer' = done.analyzer
           /\ last' = [op |-> "import_model", user_id |-> snapshots[i].user_id,
                       model_data |-> snapshots[i].model_data,
                       pre |-> importer,
                       result |-> done.raised]
    /\ UNCHANGED <<analyzer, trained, calls, ensemble, recommender, snapshots, writer, objects>>

NextSnapshot ==
    \/ \E user_id \in Users, seq \in BehaviorSequences : Train(user_id, seq)
    \/ ExportModel
    \/ ImportModel

SpecSnapshot == Init /\ [][NextSnapshot]_vars

(***************************************************************************)
(* Threads.  One thread is inside add_user_behavior and runs the body of   *)
(* its loop statement by statement; another thread reads.  The analyzer    *)
(* takes no lock, so the reader may run between any two statements.        *)
(***************************************************************************)
\* Lines 26-31: the length test, and the user's table made if missing.
BeginAddUserBehavior(user_id, behavior_sequence) ==
    /\ BeforeQuery
    /\ writer = None
    /\ trained < MaxTrain
    /\ trained' = trained + 1
    /\ IF Len(behavior_sequence) < analyzer.order + 1
       THEN UNCHANGED <<analyzer, writer>>
       ELSE /\ analyzer' = EnsureUser(analyzer, user_id)
            /\ writer' = Some([user_id |-> user_id, behavior_sequence |-> behavior_sequence,
                               i |-> 0, line |-> 38])
    /\ UNCHANGED <<calls, last, ensemble, recommender, importer, snapshots, objects>>

\* current_state and next_state of iteration i (lines 35-36)
WriterState(w) == SubSeq(w.behavior_sequence, w.i + 1, w.i + analyzer.order)
WriterNext(w) == w.behavior_sequence[w.i + analyzer.order + 1]

\* Line 38: self.user_patterns[user_id][current_state][next_state] += 1
CountInUserTable ==
    /\ BeforeQuery
    /\ writer # None
    /\ writer[1].line = 38
    /\ analyzer' = [analyzer EXCEPT !.user_patterns[writer[1].user_id] =
                        TableInc(@, WriterState(writer[1]), WriterNext(writer[1]))]
    /\ writer' = Some([writer[1] EXCEPT !.line = 39])
    /\ UNCHANGED <<trained, calls, last, ensemble, recommender, importer, snapshots, objects>>

\* Line 39: self.transition_matrix[current_state][next_state] += 1
CountInGlobalTable ==
    /\ BeforeQuery
    /\ writer # None
    /\ writer[1].line = 39
    /\ analyzer' = [analyzer EXCEPT !.transition_matrix =
                        TableInc(@, WriterState(writer[1]), WriterNext(writer[1]))]
    /\ writer' = Some([writer[1] EXCEPT !.line = 40])
    /\ UNCHANGED <<trained, calls, last, ensemble, recommender, importer, snapshots, objects>>

\* Line 40: self.state_counts[current_state] += 1, then the next iteration
\* or the end of the call.
CountState ==
    /\ BeforeQuery
    /\ writer # None
    /\ writer[1].line = 40
    /\ analyzer' = [analyzer EXCEPT !.state_counts = CountInc(@, WriterState(writer[1]))]
    /\ writer' = IF writer[1].i + 1 >= Len(writer[1].behavior_sequence) - analyzer.order
                 THEN None
                 ELSE Some([writer[1] EXCEPT !.i = @ + 1, !.line = 38])
    /\ UNCHANGED <<trained, calls, last, ensemble, recommender, importer, snapshots, objects>>

\* The reading thread: a probability query or a prediction on the analyzer
\* as it is at that moment.
ReadProbabilities ==
    /\ BeforeQuery
    /\ \E user_id \in Users \cup {NoUser} :
        last' = [op |-> "calculate_transition_probabilities", user_id |-> user_id,
                 seq |-> <<>>, length |-> 0, pre |-> analyzer,
                 result |-> calculate_transition_probabilities(analyzer, user_id)]
    /\ UNCHANGED <<analyzer, trained, calls, ensemble, recommender, exchange>>

ReadPrediction ==
    /\ BeforeQuery
    /\ \E user_id \in Users, current_sequence \in QuerySequences :
        last' = [op |-> "predict_next_behavior", user_id |-> user_id,
                 seq |-> current_sequence, length |-> 0, pre |-> analyzer,
                 result |-> predict_next_behavior(analyzer, user_id, current_sequence)]
    /\ UNCHANGED <<analyzer, trained, calls, ensemble, recommender, exchange>>

NextThreads ==
    \/ \E user_id \in Users, seq \in BehaviorSequences : BeginAddUserBehavior(user_id, seq)
    \/ CountInUserTable
    \/ CountInGlobalTable
    \/ CountState
    \/ ReadProbabilities
    \/ ReadPrediction

SpecThreads == Init /\ [][NextThreads]_vars

(***************************************************************************)
(* Statistics: training calls, each kept, and a request for the statistics *)
(* of a user.                                                              *)
(***************************************************************************)
GetUserBehaviorStats(user_id) ==
    /\ last' = [op |-> "get_user_behavior_stats", user_id |-> user_id,
                seq |-> <<>>, length |-> 0, pre |-> analyzer,
                result |-> get_user_behavior_stats(analyzer, user_id)]
    /\ UNCHANGED <<analyzer, trained, calls, ensemble, recommender, exchange>>

NextStats ==
    \/ \E user_id \in Users, seq \in BehaviorSequences : AddUserBehavior(user_id, seq)
    \/ \E user_id \in Users : GetUserBehaviorStats(user_id)

SpecStats == Init /\ [][NextStats]_vars

(***************************************************************************)
(* The recommender alone: behaviors added at any privacy level, and the    *)
(* token of a behavior built and parsed back.                              *)
(***************************************************************************)
TokenItems == {Str("item1"), Str("phone_001")}

ParsePredictedBehavior ==
    /\ BeforeQuery
    /\ \E behavior_type \in BehaviorTypeValues, item_id \in TokenItems :
        LET behavior == [RecentEvent(Clock) EXCEPT !.behavior_type = behavior_type,
                                                   !.item_id = item_id]
            predicted_behavior == behavior_to_sequence(behavior)[1]
        IN last' = [op |-> "_parse_predicted_behavior", behavior |-> behavior,
                    predicted_behavior |-> predicted_behavior,
                    result |-> parse_predicted_behavior(predicted_behavior)]
    /\ UNCHANGED <<analyzer, trained, calls, ensemble, recommender, exchange>>

NextRecommender ==
    \/ \E user_id \in Users, category \in {None, Some(Str("books"))},
          privacy_level \in PrivacyLevels :
            RecommenderAddUserBehavior(user_id, ProfileEvent(user_id, category),
                                       privacy_level, 1)
    \/ ParsePredictedBehavior

SpecRecommender == Init /\ [][NextRecommender]_vars

(***************************************************************************)
(* What the queries write.  transition_matrix and every user's table are   *)
(* defaultdicts: a subscript table[key] on a key that is not there puts    *)
(* the key in, with an empty value; `key in table`, .items() and .values() *)
(* put nothing in.  user_patterns itself is a plain dict.  Each query is   *)
(* followed through its subscripts on the default-valued tables, as        *)
(* <<table, user_id, current_state>>, and the analyzer after the query is  *)
(* the analyzer with those subscripts made.                                *)
(***************************************************************************)
Touch(an, path) ==
    IF path[1] = "transition_matrix"
    THEN IF path[3] \in DOMAIN an.transition_matrix
         THEN an
         ELSE [an EXCEPT !.transition_matrix = @ @@ (path[3] :> <<>>)]
    ELSE IF path[3] \in DOMAIN an.user_patterns[path[2]]
         THEN an
         ELSE [an EXCEPT !.user_patterns[path[2]] = @ @@ (path[3] :> <<>>)]

RECURSIVE TouchAll(_, _)
TouchAll(an, paths) ==
    IF paths = {} THEN an
    ELSE LET path == CHOOSE q \in paths : TRUE
         IN TouchAll(Touch(an, path), paths \ {path})

\* Line 53 subscripts the plain dict, under `in`; line 58 iterates items().
calculate_transition_probabilities_subscripts(an, user_id) == {}

\* Lines 85-88: each subscript is made under the `in` test of its key.
predict_next_behavior_subscripts_Unguarded(an, user_id, current_sequence) ==
    IF Len(current_sequence) < an.order
    THEN {}
    ELSE LET current_state == CurrentState(current_sequence, an.order)
         IN IF user_id \in DOMAIN an.user_patterns
            THEN {<<"user_patterns", user_id, current_state>>}
            ELSE {<<"transition_matrix", NoUser, current_state>>}

predict_next_behavior_subscripts(an, user_id, current_sequence) ==
    IF Len(current_sequence) < an.order
    THEN {}
    ELSE LET current_state == CurrentState(current_sequence, an.order)
         IN IF /\ user_id \in DOMAIN an.user_patterns
               /\ current_state \in DOMAIN an.user_patterns[user_id]
            THEN {<<"user_patterns", user_id, current_state>>}
            ELSE IF current_state \in DOMAIN an.transition_matrix
                 THEN {<<"transition_matrix", NoUser, current_state>>}
                 ELSE {}

\* The predictions of the loop of generate_behavior_sequence, one after the
\* other.
RECURSIVE GenerateSubscripts(_, _, _, _)
GenerateSubscripts(an, user_id, current_sequence, remaining) ==
    IF remaining <= 0
    THEN {}
    ELSE LET next_behavior == predict_next_behavior(an, user_id, current_sequence)
             made == predict_next_behavior_subscripts(an, user_id, current_sequence)
         IN IF next_behavior = None
            THEN made
            ELSE LET appended == Append(current_sequence, next_behavior[1])
                     window == IF Len(appended) > an.order THEN Tail(appended) ELSE appended
                 IN made \cup GenerateSubscripts(TouchAll(an, made), user_id,
                                                 window, remaining - 1)

generate_behavior_sequence_subscripts(an, user_id, start_behavior, length) ==
    GenerateSubscripts(an, user_id, <<start_behavior>>, length - 1)

\* Line 140 subscripts the plain dict, after the `not in` test of line 137;
\* the sums and the Counter go over values() and items().
get_user_behavior_stats_subscripts(an, user_id) == {}

\* Lines 204-206: items() of the global matrix, dict(transitions).
generate_model_hash_subscripts(an) == {}

\* Lines 188-194: the plain dict under `in`, dict(...) of whole tables, and
\* the hash and the statistics.
export_model_subscripts(an, user_id) ==
    generate_model_hash_subscripts(an)
        \cup (IF Truthy(user_id) /\ user_id \in DOMAIN an.user_patterns
              THEN get_user_behavior_stats_subscripts(an, user_id)
              ELSE {})

\* enhanced_markov_demo.py 173-186: two probability queries per order; the
\* `in` tests and the loops are on the plain dicts they return.
hybrid_prediction_subscripts(ans, user_id, recent_behaviors) ==
    [order \in DOMAIN ans |->
        IF Len(recent_behaviors) < order
        THEN {}
        ELSE calculate_transition_probabilities_subscripts(ans[order], NoUser)
                \cup calculate_transition_probabilities_subscripts(ans[order], user_id)]

(***************************************************************************)
(* Queries on a trained analyzer and on a built ensemble, each with what   *)
(* it writes.                                                              *)
(***************************************************************************)
ReadOnlySequences == {ScenarioTokens, [i \in 1..MaxLen |-> "view_a"]}
ReadOnlyDicts ==
    {d \in BehaviorDicts : Len(d) = 1 /\ d[1][1] = "u1" /\ Len(d[1][2]) = MaxLen}

CallCalculateTransitionProbabilities ==
    /\ BeforeQuery
    /\ \E user_id \in Users \cup {NoUser} :
        /\ last' = [op |-> "calculate_transition_probabilities", user_id |-> user_id,
                    pre |-> analyzer,
                    result |-> calculate_transition_probabilities(analyzer, user_id)]
        /\ analyzer' = TouchAll(analyzer,
                            calculate_transition_probabilities_subscripts(analyzer, user_id))
    /\ UNCHANGED <<trained, calls, ensemble, recommender, exchange>>

CallPredictNextBehavior ==
    /\ BeforeQuery
    /\ \E user_id \in Users, current_sequence \in QuerySequences :
        /\ last' = [op |-> "predict_next_behavior", user_id |-> user_id,
                    seq |-> current_sequence, pre |-> analyzer,
                    result |-> predict_next_behavior(analyzer, user_id, current_sequence)]
        /\ analyzer' = TouchAll(analyzer,
                            predict_next_behavior_subscripts(analyzer, user_id,
                                                             current_sequence))
    /\ UNCHANGED <<trained, calls, ensemble, recommender, exchange>>

CallGenerateBehaviorSequence ==
    /\ BeforeQuery
    /\ \E user_id \in Users, start_behavior \in Alphabet, length \in 1..MaxGenLen :
        /\ last' = [op |-> "generate_behavior_sequence", user_id |-> user_id,
                    seq |-> <<start_behavior>>, length |-> length, pre |-> analyzer,
                    result |-> generate_behavior_sequence(analyzer, user_id,
                                                          start_behavior, length)]
        /\ analyzer' = TouchAll(analyzer,
                            generate_behavior_sequence_subscripts(analyzer, user_id,
                                                                  start_behavior, length))
    /\ UNCHANGED <<trained, calls, ensemble, recommender, exchange>>

CallGetUserBehaviorStats ==
    /\ BeforeQuery
    /\ \E user_id \in Users :
        /\ last' = [op |-> "get_user_behavior_stats", user_id |-> user_id,
                    pre |-> analyzer,
                    result |-> get_user_behavior_stats(analyzer, user_id)]
        /\ analyzer' = TouchAll(analyzer,
                            get_user_behavior_stats_subscripts(analyzer, user_id))
    /\ UNCHANGED <<trained, calls, ensemble, recommender, exchange>>

CallExportModel ==
    /\ BeforeQuery
    /\ \E user_id \in ExportScopes, now \in ExportTimes :
        /\ last' = [op |-> "export_model", user_id |-> user_id, pre |-> analyzer,
                    result |-> export_model(analyzer, user_id, now)]
        /\ analyzer' = TouchAll(analyzer, export_model_subscripts(analyzer, user_id))
    /\ UNCHANGED <<trained, calls, ensemble, recommender, exchange>>

CallGenerateModelHash ==
    /\ BeforeQuery
    /\ last' = [op |-> "_generate_model_hash", pre |-> analyzer,
                result |-> generate_model_hash(analyzer)]
    /\ analyzer' = TouchAll(analyzer, generate_model_hash_subscripts(analyzer))
    /\ UNCHANGED <<trained, calls, ensemble, recommender, exchange>>

CallHybridPrediction ==
    /\ BeforeQuery
    /\ \E user_id \in Users, recent_behaviors \in RecentBehaviors :
        /\ last' = [op |-> "hybrid_prediction", user_id |-> user_id,
                    seq |-> recent_behaviors, pre |-> analyzers,
                    result |-> hybrid_prediction(analyzers, user_id, recent_behaviors,
                                                 DefaultAlphaGlobal)]
        /\ analyzers' =
                [order \in DOMAIN analyzers |->
                    TouchAll(analyzers[order],
                             hybrid_prediction_subscripts(analyzers, user_id,
                                                          recent_behaviors)[order])]
    /\ UNCHANGED <<analyzer, trained, calls, category_preferences, built, recommender,
                   exchange>>

NextReadOnly ==
    \/ \E user_id \in Users, seq \in ReadOnlySequences : Train(user_id, seq)
    \/ \E behaviors \in ReadOnlyDicts : BuildMultiOrderModels(behaviors)
    \/ CallCalculateTransitionProbabilities
    \/ CallPredictNextBehavior
    \/ CallGenerateBehaviorSequence
    \/ CallGetUserBehaviorStats
    \/ CallExportModel
    \/ CallGenerateModelHash
    \/ CallHybridPrediction

SpecReadOnly == Init /\ [][NextReadOnly]_vars

(***************************************************************************)
(* Objects.  The tables of the analyzer hold successor maps, which are     *)
(* objects: dict(table) makes a new outer dict that holds the same maps,   *)
(* defaultdict(float, transitions) makes a new map.  Below, the operators  *)
(* of the analyzer are written over a heap of successor maps, where a      *)
(* table is a function from contexts to indices of the heap.               *)
(***************************************************************************)
MaxImporterTrain == 1
AliasSequences == {ScenarioTokens, [i \in 1..MaxLen |-> "view_a"]}

\* The table with the successor maps it holds.
Deref(heap, table) == [state \in DOMAIN table |-> heap[table[state]]]

DerefAnalyzer(heap, an) ==
    [an EXCEPT !.transition_matrix = Deref(heap, @),
               !.user_patterns = [u \in DOMAIN @ |-> Deref(heap, @[u])]]

\* table[current_state][next_state] += 1: the map of an existing context is
\* updated in place, a new context gets a new map.
TableInc_refs(heap, table, current_state, next_state) ==
    IF current_state \in DOMAIN table
    THEN [heap |-> [heap EXCEPT ![table[current_state]] = DictInc(@, next_state)],
          table |-> table]
    ELSE [heap |-> Append(heap, DictInc(<<>>, next_state)),
          table |-> table @@ (current_state :> Len(heap) + 1)]

RecordTransition_refs(heap, an, user_id, current_state, next_state) ==
    LET user == TableInc_refs(heap, an.user_patterns[user_id], current_state, next_state)
        global == TableInc_refs(user.heap, an.transition_matrix, current_state, next_state)
    IN [heap |-> global.heap,
        an |-> [an EXCEPT !.user_patterns[user_id] = user.table,
                          !.transition_matrix = global.table,
                          !.state_counts = CountInc(@, current_state)]]

RECURSIVE TrainLoop_refs(_, _, _, _, _)
TrainLoop_refs(heap, an, user_id, behavior_sequence, i) ==
    IF i >= Len(behavior_sequence) - an.order
    THEN [heap |-> heap, an |-> an]
    ELSE LET done == RecordTransition_refs(heap, an, user_id,
                        SubSeq(behavior_sequence, i + 1, i + an.order),
                        behavior_sequence[i + an.order + 1])
         IN TrainLoop_refs(done.heap, done.an, user_id, behavior_sequence, i + 1)

add_user_behavior_refs(heap, an, user_id, behavior_sequence) ==
    IF Len(behavior_sequence) < an.order + 1
    THEN [heap |-> heap, an |-> an]
    ELSE TrainLoop_refs(heap, EnsureUser(an, user_id), user_id, behavior_sequence, 0)

\* dict(self.user_patterns[user_id]), dict(self.transition_matrix): a new
\* outer dict with the same values.
export_model_refs(heap, an, user_id, now) ==
    LET model_data == export_model(DerefAnalyzer(heap, an), user_id, now)
    IN IF "transition_matrix" \in DOMAIN model_data
       THEN [model_data EXCEPT !.transition_matrix =
                IF Truthy(user_id) THEN an.user_patterns[user_id]
                                   ELSE an.transition_matrix]
       ELSE model_data

\* for state, transitions in ....items(): target[state] = defaultdict(float, transitions)
RECURSIVE CopyTable(_, _, _, _)
CopyTable(heap, table, states, target) ==
    IF states = {}
    THEN [heap |-> heap, table |-> target]
    ELSE LET state == CHOOSE st \in states : TRUE
         IN CopyTable(Append(heap, heap[table[state]]), table, states \ {state},
                      target @@ (state :> Len(heap) + 1))

\* The import that stores the maps of model_data themselves.
import_model_refs_Shared(heap, an, model_data) ==
    LET ordered == [an EXCEPT !.order = IF "order" \in DOMAIN model_data
                                        THEN model_data.order ELSE DefaultOrder]
    IN IF "user_id" \in DOMAIN model_data
       THEN LET created == [ordered EXCEPT !.user_patterns =
                                [u \in DOMAIN @ \cup {model_data.user_id} |->
                                    IF u = model_data.user_id THEN EmptyDict ELSE @[u]]]
            IN IF "transition_matrix" \in DOMAIN model_data
               THEN [heap |-> heap,
                     analyzer |-> [created EXCEPT !.user_patterns[model_data.user_id] =
                                        model_data.transition_matrix],
                     raised |-> ""]
               ELSE [heap |-> heap, analyzer |-> created, raised |-> "KeyError"]
       ELSE LET reset == [ordered EXCEPT !.transition_matrix = EmptyDict]
            IN IF "transition_matrix" \in DOMAIN model_data
               THEN [heap |-> heap,
                     analyzer |-> [reset EXCEPT !.transition_matrix =
                                        model_data.transition_matrix],
                     raised |-> ""]
               ELSE [heap |-> heap, analyzer |-> reset, raised |-> "KeyError"]

import_model_refs(heap, an, model_data) ==
    LET ordered == [an EXCEPT !.order = IF "order" \in DOMAIN model_data
                                        THEN model_data.order ELSE DefaultOrder]
    IN IF "user_id" \in DOMAIN model_data
       THEN LET created == [ordered EXCEPT !.user_patterns =
                                [u \in DOMAIN @ \cup {model_data.user_id} |->
                                    IF u = model_data.user_id THEN EmptyDict ELSE @[u]]]
            IN IF "transition_matrix" \in DOMAIN model_data
               THEN LET copy == CopyTable(heap, model_data.transition_matrix,
                                          DOMAIN model_data.transition_matrix, EmptyDict)
                    IN [heap |-> copy.heap,
                        analyzer |-> [created EXCEPT !.user_patterns[model_data.user_id] =
                                            copy.table],
                        raised |-> ""]
               ELSE [heap |-> heap, analyzer |-> created, raised |-> "KeyError"]
       ELSE LET reset == [ordered EXCEPT !.transition_matrix = EmptyDict]
            IN IF "transition_matrix" \in DOMAIN model_data
               THEN LET copy == CopyTable(heap, model_data.transition_matrix,
                                          DOMAIN model_data.transition_matrix, EmptyDict)
                    IN [heap |-> copy.heap,
                        analyzer |-> [reset EXCEPT !.transition_matrix = copy.table],
                        raised |-> ""]
               ELSE [heap |-> heap, analyzer |-> reset, raised |-> "KeyError"]

\* What the holder of a snapshot reads in its transition_matrix.
SnapshotView(heap, model_data) ==
    IF "transition_matrix" \in DOMAIN model_data
    THEN Deref(heap, model_data.transition_matrix)
    ELSE EmptyDict

ViewOf(heap, snapshot) ==
    IF snapshot = None THEN None ELSE Some(SnapshotView(heap, snapshot[1]))

(***************************************************************************)
(* A model is trained, a snapshot of it is taken once, the model is        *)
(* trained further, and a fresh analyzer imports the snapshot and is       *)
(* trained.  at_export keeps what the snapshot read when it was taken,     *)
(* after_model_call what it read after the last call on the model.         *)
(***************************************************************************)
ModelAddUserBehavior ==
    /\ trained < MaxTrain
    /\ \E user_id \in Users, behavior_sequence \in AliasSequences :
        LET done == add_user_behavior_refs(objects.heap, objects.model,
                                           user_id, behavior_sequence)
        IN objects' = [objects EXCEPT
                            !.heap = done.heap,
                            !.model = done.an,
                            !.after_model_call = ViewOf(done.heap, objects.snapshot)]
    /\ trained' = trained + 1
    /\ UNCHANGED <<analyzer, calls, last, ensemble, recommender, importer, snapshots, writer>>

ModelExport ==
    /\ objects.snapshot = None
    /\ \E user_id \in ExportScopes :
        LET model_data == export_model_refs(objects.heap, objects.model, user_id, 0)
        IN objects' = [objects EXCEPT
                            !.snapshot = Some(model_data),
                            !.at_export = Some(SnapshotView(objects.heap, model_data)),
                            !.after_model_call = Some(SnapshotView(objects.heap, model_data))]
    /\ UNCHANGED <<analyzer, trained, calls, last, ensemble, recommender, importer,
                   snapshots, writer>>

ImporterImport ==
    /\ objects.snapshot # None
    /\ objects.importer = None
    /\ LET done == import_model_refs(objects.heap, NewAnalyzer(2), objects.snapshot[1])
       IN objects' = [objects EXCEPT !.heap = done.heap,
                                     !.importer = Some(done.analyzer)]
    /\ UNCHANGED <<analyzer, trained, calls, last, ensemble, recommender, importer,
                   snapshots, writer>>

ImporterAddUserBehavior ==
    /\ objects.importer # None
    /\ objects.importer_trained < MaxImporterTrain
    /\ \E user_id \in Users, behavior_sequence \in AliasSequences :
        LET done == add_user_behavior_refs(objects.heap, objects.importer[1],
                                           user_id, behavior_sequence)
        IN objects' = [objects EXCEPT
                            !.heap = done.heap,
                            !.importer = Some(done.an),
                            !.importer_trained = @ + 1]
    /\ UNCHANGED <<analyzer, trained, calls, last, ensemble, recommender, importer,
                   snapshots, writer>>

NextAliasing ==
    \/ ModelAddUserBehavior
    \/ ModelExport
    \/ ImporterImport
    \/ ImporterAddUserBehavior

SpecAliasing == Init /\ [][NextAliasing]_vars

(***************************************************************************)
(* Vocabulary of the properties.                                           *)
(***************************************************************************)
Contexts(order) == [1..order -> Tokens]

\* The count a table records for ctx -> nxt (0 when it records none).
CountOf(table, ctx, nxt) ==
    IF ctx \in DOMAIN table THEN DictGet(table[ctx], nxt) ELSE 0

UserTable(an, user_id) ==
    IF user_id \in DOMAIN an.user_patterns THEN an.user_patterns[user_id] ELSE EmptyDict

\* The number of indices i with i + order < len(tokens) whose window is ctx -> nxt.
Occurrences(tokens, order, ctx, nxt) ==
    Cardinality({i \in 0..(Len(tokens) - order - 1) :
                    /\ SubSeq(tokens, i + 1, i + order) = ctx
                    /\ tokens[i + order + 1] = nxt})

\* The contexts of the windows of tokens: tokens[i : i + order], i + order < len(tokens).
WindowContexts(tokens, order) ==
    {SubSeq(tokens, i + 1, i + order) : i \in 0..(Len(tokens) - order - 1)}

\* ctx was trained in table: it has a successor with a positive count.
TrainedIn(table, ctx) == \E nxt \in Tokens : CountOf(table, ctx, nxt) > 0

\* The largest successor count of ctx in table.
MaxCount(table, ctx) ==
    CHOOSE m \in 0..(MaxTrain * (Len(ScenarioTokens) + MaxLen)) :
        /\ \A nxt \in Tokens : CountOf(table, ctx, nxt) <= m
        /\ \E nxt \in Tokens : CountOf(table, ctx, nxt) = m

\* The last `order` tokens of a sequence that has at least that many.
LastTokens(seq, order) == [i \in 1..order |-> seq[Len(seq) - order + i]]

Added == last.op = "add_user_behavior"
Predicted == last.op = "predict_next_behavior"
Calculated == last.op = "calculate_transition_probabilities"
Generated == last.op = "generate_behavior_sequence"

(***************************************************************************)
(* C1.  An add_user_behavior(user, tokens) with len(tokens) >= order + 1   *)
(* adds to the global count and to the user's count of every               *)
(* (context, next) exactly the number of windows of tokens that are that   *)
(* pair, changes no other user's table, and on the order-2 scenario gives  *)
(* probability 1 to view_b after (view_a, click_a) and to purchase_b after *)
(* (view_b, click_b).                                                      *)
(***************************************************************************)
C1_TrainingCounts ==
    (Added /\ Len(last.seq) >= last.pre.order + 1) =>
        LET pre == last.pre
            k == pre.order
            u == last.user_id
            ctxs == WindowContexts(last.seq, k)
                        \cup DOMAIN analyzer.transition_matrix
                        \cup DOMAIN pre.transition_matrix
                        \cup DOMAIN UserTable(analyzer, u)
                        \cup DOMAIN UserTable(pre, u)
        IN /\ u \in DOMAIN analyzer.user_patterns
           /\ \A ctx \in ctxs, nxt \in Tokens :
                /\ CountOf(analyzer.transition_matrix, ctx, nxt)
                     = CountOf(pre.transition_matrix, ctx, nxt)
                        + Occurrences(last.seq, k, ctx, nxt)
                /\ CountOf(UserTable(analyzer, u), ctx, nxt)
                     = CountOf(UserTable(pre, u), ctx, nxt)
                        + Occurrences(last.seq, k, ctx, nxt)
           /\ DOMAIN analyzer.user_patterns = DOMAIN pre.user_patterns \cup {u}
           /\ \A v \in DOMAIN pre.user_patterns \ {u} :
                analyzer.user_patterns[v] = pre.user_patterns[v]
           /\ (k = 2 /\ last.seq = ScenarioTokens /\ pre = NewAnalyzer(2)) =>
                LET probabilities == calculate_transition_probabilities(analyzer, u)
                IN /\ probabilities[<<"view_a", "click_a">>] = ("view_b" :> <<1, 1>>)
                   /\ probabilities[<<"view_b", "click_b">>] = ("purchase_b" :> <<1, 1>>)

\* A training call that counts one window twice, on top of an earlier
\* count of the same pair, beside another user's table.
C1_Witness ==
    /\ Added
    /\ Len(last.seq) >= last.pre.order + 1
    /\ DOMAIN last.pre.user_patterns \ {last.user_id} # {}
    /\ \E ctx \in Contexts(last.pre.order), nxt \in Tokens :
            /\ Occurrences(last.seq, last.pre.order, ctx, nxt) = 2
            /\ CountOf(last.pre.transition_matrix, ctx, nxt) > 0

(***************************************************************************)
(* C2.  An add_user_behavior with len(tokens) < order + 1 changes nothing: *)
(* transition_matrix, state_counts and user_patterns are as before, and a  *)
(* user without a table still has none.                                    *)
(***************************************************************************)
C2_ShortSequenceNoOp ==
    (Added /\ Len(last.seq) < last.pre.order + 1) =>
        /\ analyzer.transition_matrix = last.pre.transition_matrix
        /\ analyzer.state_counts = last.pre.state_counts
        /\ analyzer.user_patterns = last.pre.user_patterns
        /\ DOMAIN analyzer.user_patterns = DOMAIN last.pre.user_patterns

\* A short sequence, of exactly `order` tokens, for a user without a table,
\* on an analyzer another user has trained.
C2_Witness ==
    /\ Added
    /\ Len(last.seq) = last.pre.order
    /\ last.user_id \notin DOMAIN analyzer.user_patterns
    /\ DOMAIN analyzer.transition_matrix # {}

(***************************************************************************)
(* C3.  Training the same user with A and then with B, len(A) >= order.    *)
(***************************************************************************)
\* A fresh analyzer trained with A and then B by one user, len(A) >= order.
TrainedAThenB ==
    /\ Len(calls) = 2
    /\ calls[1][1] = calls[2][1]
    /\ Len(calls[1][2]) >= analyzer.order

\* The analyzer a single call with A concatenated with B gives.
Concatenated ==
    add_user_behavior(NewAnalyzer(analyzer.order), calls[1][1],
                      calls[1][2] \o calls[2][2])

\* Two tables record the same contexts with the same successor counts.
SameTable(t1, t2) ==
    /\ DOMAIN t1 = DOMAIN t2
    /\ \A ctx \in DOMAIN t1, nxt \in Tokens : CountOf(t1, ctx, nxt) = CountOf(t2, ctx, nxt)

SameTables(a1, a2) ==
    /\ SameTable(a1.transition_matrix, a2.transition_matrix)
    /\ DOMAIN a1.user_patterns = DOMAIN a2.user_patterns
    /\ \A u \in DOMAIN a1.user_patterns :
            SameTable(a1.user_patterns[u], a2.user_patterns[u])

\* The windows of A \o B that start in A and end with a token of B.
Straddling(A, B, order, ctx, nxt) ==
    Cardinality({i \in 0..(Len(A) - 1) :
                    /\ i >= Len(A) - order
                    /\ i + order < Len(A) + Len(B)
                    /\ SubSeq(A \o B, i + 1, i + order) = ctx
                    /\ (A \o B)[i + order + 1] = nxt})

\* C3 as stated: A then B leaves the tables of a single call with A \o B.
C3_AdditiveOverConcatenation ==
    TrainedAThenB => SameTables(analyzer, Concatenated)

\* C3 as amended: a single call with A \o B counts, beyond what A then B
\* counts, exactly the windows that straddle the boundary of A and B, so the
\* tables are the same exactly when B is empty.
C3_AdditiveUpToBoundary ==
    TrainedAThenB =>
        LET A == calls[1][2]
            B == calls[2][2]
            u == calls[1][1]
            k == analyzer.order
            one == Concatenated
        IN /\ \A ctx \in WindowContexts(A \o B, k)
                            \cup DOMAIN one.transition_matrix
                            \cup DOMAIN analyzer.transition_matrix,
                 nxt \in Tokens :
                /\ CountOf(one.transition_matrix, ctx, nxt)
                     = CountOf(analyzer.transition_matrix, ctx, nxt)
                        + Straddling(A, B, k, ctx, nxt)
                /\ CountOf(UserTable(one, u), ctx, nxt)
                     = CountOf(UserTable(analyzer, u), ctx, nxt)
                        + Straddling(A, B, k, ctx, nxt)
           /\ SameTables(analyzer, one) <=> (B = <<>>)

\* Both calls train, and a window of A \o B straddles the boundary.
C3_Witness ==
    /\ TrainedAThenB
    /\ Len(calls[1][2]) >= analyzer.order + 1
    /\ Len(calls[2][2]) >= analyzer.order + 1
    /\ ~SameTables(analyzer, Concatenated)

(***************************************************************************)
(* C4.  predict_next_behavior returns None when the sequence is shorter    *)
(* than the order or its last `order` tokens were trained neither in the   *)
(* user's table nor in the global one; otherwise it returns a token with a *)
(* positive count after that context in the table it consulted (the        *)
(* user's when the user's table has the context, else the global one).     *)
(***************************************************************************)
C4_PredictNoneOrSuccessor ==
    Predicted =>
        LET an == last.pre
            k == an.order
            r == last.result
        IN IF Len(last.seq) < k
           THEN r = None
           ELSE LET ctx == LastTokens(last.seq, k)
                    inUser == TrainedIn(UserTable(an, last.user_id), ctx)
                    inGlobal == TrainedIn(an.transition_matrix, ctx)
                IN IF ~inUser /\ ~inGlobal
                   THEN r = None
                   ELSE /\ Len(r) = 1
                        /\ CountOf(IF inUser THEN UserTable(an, last.user_id)
                                   ELSE an.transition_matrix, ctx, r[1]) > 0

\* A prediction from a sequence longer than the order whose first tokens
\* have a different successor than its last ones.
C4_Witness ==
    /\ Predicted
    /\ Len(last.seq) > last.pre.order
    /\ Len(last.result) = 1
    /\ ~TrainedIn(last.pre.transition_matrix,
                  SubSeq(last.seq, 1, last.pre.order))

(***************************************************************************)
(* C5.  When the user's table has the context, the prediction is a         *)
(* maximum-count successor in the user's table, whatever the global        *)
(* maximum is; the global table decides only when the user has no table    *)
(* or the user's table lacks the context.                                  *)
(***************************************************************************)
C5_PersonalFirst ==
    (Predicted /\ Len(last.seq) >= last.pre.order) =>
        LET an == last.pre
            ctx == LastTokens(last.seq, an.order)
            mine == UserTable(an, last.user_id)
            r == last.result
        IN /\ TrainedIn(mine, ctx) =>
                /\ Len(r) = 1
                /\ CountOf(mine, ctx, r[1]) = MaxCount(mine, ctx)
           /\ (~TrainedIn(mine, ctx) /\ TrainedIn(an.transition_matrix, ctx)) =>
                /\ Len(r) = 1
                /\ CountOf(an.transition_matrix, ctx, r[1])
                     = MaxCount(an.transition_matrix, ctx)

\* The user's table decides against the global maximum.
C5_Witness ==
    /\ Predicted
    /\ Len(last.seq) >= last.pre.order
    /\ TrainedIn(UserTable(last.pre, last.user_id),
                 LastTokens(last.seq, last.pre.order))
    /\ Len(last.result) = 1
    /\ CountOf(last.pre.transition_matrix,
               LastTokens(last.seq, last.pre.order), last.result[1])
         < MaxCount(last.pre.transition_matrix, LastTokens(last.seq, last.pre.order))

(***************************************************************************)
(* C6.  Every context of the table a probability query selected is         *)
(* returned, and each successor's probability is its count over the sum of *)
(* that context's own successor counts, so the numerators of a context     *)
(* add up to its denominator.                                              *)
(***************************************************************************)
RECURSIVE SumNumerators(_, _)
SumNumerators(probabilities, S) ==
    IF S = {} THEN 0
    ELSE LET n == CHOOSE n \in S : TRUE
         IN probabilities[n][1] + SumNumerators(probabilities, S \ {n})

RECURSIVE SumCounts(_, _, _)
SumCounts(table, ctx, S) ==
    IF S = {} THEN 0
    ELSE LET n == CHOOSE n \in S : TRUE
         IN CountOf(table, ctx, n) + SumCounts(table, ctx, S \ {n})

\* The table the query selects: the user's own when the user has one.
Selected(an, user_id) ==
    IF user_id # NoUser /\ user_id \in DOMAIN an.user_patterns
    THEN an.user_patterns[user_id]
    ELSE an.transition_matrix

C6_ConditionalDistribution ==
    Calculated =>
        LET table == Selected(last.pre, last.user_id)
            r == last.result
        IN /\ DOMAIN r = DOMAIN table
           /\ \A ctx \in DOMAIN r :
                /\ DOMAIN r[ctx] = {n \in Tokens : CountOf(table, ctx, n) > 0}
                /\ \A n \in DOMAIN r[ctx] :
                     r[ctx][n] = <<CountOf(table, ctx, n), SumCounts(table, ctx, Tokens)>>
                /\ SumNumerators(r[ctx], DOMAIN r[ctx]) = SumCounts(table, ctx, Tokens)
                /\ SumCounts(table, ctx, Tokens) > 0

\* A query over a table of two contexts, one of them with two successors.
C6_Witness ==
    /\ Calculated
    /\ Cardinality(DOMAIN last.result) >= 2
    /\ \E ctx \in DOMAIN last.result : Cardinality(DOMAIN last.result[ctx]) >= 2

(***************************************************************************)
(* C7.  A probability query for a user returns only contexts of that       *)
(* user's own table, and nothing for a user without a table; global data   *)
(* is returned only to the global query (user_id None).                    *)
(***************************************************************************)
C7_ScopedToUser ==
    (Calculated /\ last.user_id # NoUser) =>
        \A ctx \in DOMAIN last.result :
            /\ last.user_id \in DOMAIN last.pre.user_patterns
            /\ ctx \in DOMAIN last.pre.user_patterns[last.user_id]

(***************************************************************************)
(* C8.  Whatever the ensemble was trained on, for every user, every list   *)
(* of recent tokens and every alpha_global in [0,1], 0 and 1 included, the *)
(* mapping hybrid_prediction returns is empty or its values sum to 1.      *)
(***************************************************************************)
HybridPredicted == last.op = "hybrid_prediction"

C8_EmptyOrSumsToOne ==
    HybridPredicted =>
        \/ DOMAIN last.result = {}
        \/ RatSum(last.result, DOMAIN last.result) = RatOne

(***************************************************************************)
(* C9.  category_aware_prediction(user, recent) is the hybrid prediction   *)
(* restricted to the candidates of at least three '_'-separated segments,  *)
(* each probability multiplied by the user's weight for the category the   *)
(* candidate's token was built with (1.0 when the user has none), then     *)
(* normalised; for every behaviour type and item id tokens are built from. *)
(***************************************************************************)
\* the category of the behavior a token was built from
BuiltCategory(token) ==
    CHOOSE category \in {b.category : b \in EnsembleBehaviors} :
        \E b \in EnsembleBehaviors : BehaviorToken(b) = token /\ b.category = category

ReweightedByBuiltCategory(user_id, recent_behaviors) ==
    LET hybrid == hybrid_prediction(analyzers, user_id, recent_behaviors, DefaultAlphaGlobal)
        preferences == IF user_id \in DOMAIN category_preferences
                       THEN category_preferences[user_id] ELSE EmptyDict
    IN Normalize([behavior \in {b \in DOMAIN hybrid : Len(b) >= 3} |->
                    RatMul(hybrid[behavior],
                           PreferenceWeight(preferences, BuiltCategory(behavior)))])

C9_WeightedByBuiltCategory ==
    last.op = "category_aware_prediction" =>
        last.result = ReweightedByBuiltCategory(last.user_id, last.seq)

(***************************************************************************)
(* C10.  generate_behavior_sequence returns a sequence that starts with    *)
(* start, has at most `length` elements (length >= 1), each later element  *)
(* being the prediction from the at most `order` elements before it, and   *)
(* that is shorter than `length` only where the next prediction is None.   *)
(***************************************************************************)
\* The at most `order` elements of r that end at position m.
Window(r, m, order) == SubSeq(r, IF m > order THEN m - order + 1 ELSE 1, m)

C10_GreedyWalk ==
    Generated =>
        LET an == last.pre
            r == last.result
        IN /\ Len(r) >= 1
           /\ r[1] = last.seq[1]
           /\ Len(r) <= last.length
           /\ \A j \in 2..Len(r) :
                predict_next_behavior(an, last.user_id, Window(r, j - 1, an.order))
                    = Some(r[j])
           /\ Len(r) < last.length =>
                predict_next_behavior(an, last.user_id, Window(r, Len(r), an.order)) = None

\* A walk that made a step and then stopped before the requested length.
C10_Witness ==
    /\ Generated
    /\ Len(last.result) >= 2
    /\ Len(last.result) < last.length

(***************************************************************************)
(* C11.  _apply_privacy_protection is defined at every integer level: at   *)
(* level 0 and at every level outside 0..3 the event returned equals the   *)
(* event given in every field, and at every level the event given has the  *)
(* same fields after the call as before it.                                *)
(***************************************************************************)
Protected == last.op = "_apply_privacy_protection"

C12_Anonymized ==
    (Protected /\ last.privacy_level = 1) =>
        LET given == last.behavior
            returned == last.result.returned
        IN /\ returned.user_id = anonymize_user_id(given.user_id)
           /\ returned.item_id = given.item_id
           /\ returned.category = given.category
           /\ returned.timestamp = given.timestamp
           /\ given.metadata = None => returned.metadata = None
           /\ given.metadata # None =>
                /\ returned.metadata # None
                /\ DOMAIN returned.metadata[1] =
                        {k \in DOMAIN given.metadata[1] : Lower(k) \notin sensitive_fields}
                /\ \A k \in DOMAIN returned.metadata[1] :
                        returned.metadata[1][k] = given.metadata[1][k]

\* 'Email' is removed and 'page' is kept.
C12_Witness ==
    /\ Protected
    /\ last.privacy_level = 1
    /\ last.behavior.metadata # None
    /\ DOMAIN last.behavior.metadata[1] = {"Email", "page"}
    /\ DOMAIN last.result.returned.metadata[1] = {"page"}

(***************************************************************************)
(* C13.  At privacy level 3 every string-valued metadata field, whatever   *)
(* the length of the string, is replaced by a ciphertext that decrypts to  *)
(* the original value, every other metadata value is kept under its key,   *)
(* the item id and a present category are replaced by ciphertexts, the     *)
(* timestamp is unchanged and the user id is the anonymized id.            *)
(***************************************************************************)
Encrypted == Protected /\ last.privacy_level = 3

GivenMetadata == IF last.behavior.metadata = None THEN EmptyDict ELSE last.behavior.metadata[1]

EncryptionOf(value, original) == IsCiphertext(value) /\ Decrypt(value) = original

C13_EveryStringEncrypted ==
    Encrypted =>
        LET given == last.behavior
            returned == last.result.returned
        IN /\ returned.user_id = anonymize_user_id(given.user_id)
           /\ returned.timestamp = given.timestamp
           /\ IsCiphertext(returned.item_id)
           /\ given.category # None =>
                returned.category # None /\ IsCiphertext(returned.category[1])
           /\ returned.metadata # None
           /\ DOMAIN returned.metadata[1] = DOMAIN GivenMetadata
           /\ \A key \in DOMAIN GivenMetadata :
                IF GivenMetadata[key].type = "str"
                THEN EncryptionOf(returned.metadata[1][key], GivenMetadata[key])
                ELSE returned.metadata[1][key] = GivenMetadata[key]

\* As amended: the strings that are encrypted are the non-empty ones; an
\* empty string is kept as it is, and an empty category, like an absent
\* one, comes back as None.
C13_NonEmptyStringsEncrypted ==
    Encrypted =>
        LET given == last.behavior
            returned == last.result.returned
        IN /\ returned.user_id = anonymize_user_id(given.user_id)
           /\ returned.timestamp = given.timestamp
           /\ EncryptionOf(returned.item_id, given.item_id)
           /\ IF given.category = None \/ given.category = Some(Str(""))
              THEN returned.category = None
              ELSE /\ returned.category # None
                   /\ EncryptionOf(returned.category[1], given.category[1])
           /\ returned.metadata # None
           /\ DOMAIN returned.metadata[1] = DOMAIN GivenMetadata
           /\ \A key \in DOMAIN GivenMetadata :
                IF GivenMetadata[key].type = "str" /\ GivenMetadata[key] # Str("")
                THEN EncryptionOf(returned.metadata[1][key], GivenMetadata[key])
                ELSE returned.metadata[1][key] = GivenMetadata[key]

\* An event with a non-empty string, an empty string and an empty category.
C13_Witness ==
    /\ Encrypted
    /\ last.behavior.category = Some(Str(""))
    /\ DOMAIN GivenMetadata = {"Email", "page"}
    /\ GivenMetadata["Email"] = Str("alice")
    /\ GivenMetadata["page"] = Str("")
    /\ IsCiphertext(last.result.returned.metadata[1]["Email"])

(***************************************************************************)
(* C14.  _calculate_recommendation_score takes the type weight from the    *)
(* table (purchase 1.0, add_to_cart 0.8, like 0.6, click 0.4, view 0.3),   *)
(* and every other action kind, a string that is no behaviour type at all  *)
(* ('unknown') included, gets weight 0.5 and a numeric score, not an error.*)
(***************************************************************************)
Scored == last.op = "_calculate_recommendation_score"

RatLeq(x, y) == x[1] * y[2] <= y[1] * x[2]

\* The weight the table gives a kind, 0.5 for every kind it does not hold.
TableWeight(kind) ==
    CASE kind = "purchase" -> <<1, 1>>
      [] kind = "add_to_cart" -> <<4, 5>>
      [] kind = "like" -> <<3, 5>>
      [] kind = "click" -> <<2, 5>>
      [] kind = "view" -> <<3, 10>>
      [] OTHER -> <<1, 2>>

ScoreWithWeight(weight) ==
    RatMul(RatMul(RatMul(<<1, 2>>, weight),
                  IF last.recent_behaviors = <<>> THEN RatOne
                  ELSE calculate_time_factor(last.recent_behaviors[1].timestamp,
                                             last.now, DefaultHalfLifeDays)),
           calculate_preference_factor(recommender, last.user_id, last.item_id,
                                       last.hash_index))

C14_WeightOrHalf ==
    Scored =>
        /\ last.result.raised = ""
        /\ last.result.value = ScoreWithWeight(TableWeight(last.behavior_type))

(***************************************************************************)
(* C15.  For every profile state, every recognised action kind, every item *)
(* and every list of recent events, whatever the timestamp of the most     *)
(* recent one (timestamps later than the current time included), the score *)
(* lies in [0, 1.0].                                                       *)
(***************************************************************************)
C15_ScoreInUnitInterval ==
    (Scored /\ last.behavior_type \in BehaviorTypeValues) =>
        /\ last.result.raised = ""
        /\ RatLeq(RatZero, last.result.value)
        /\ RatLeq(last.result.value, RatOne)

(***************************************************************************)
(* C16.  _calculate_time_factor decays with a half-life of half_life_days: *)
(* it is 1.0 at zero elapsed days, about 0.5 after half_life_days and      *)
(* about 0.25 after twice as many, and a more recent timestamp never gets  *)
(* a smaller factor than an older one.                                     *)
(***************************************************************************)
TimeFactored == last.op = "_calculate_time_factor"

\* |x - target| <= 0.05
About(x, target) ==
    /\ RatLeq(RatSub(target, <<1, 20>>), x)
    /\ RatLeq(x, RatAdd(target, <<1, 20>>))

C16_HalfLifeDecay ==
    TimeFactored =>
        LET elapsed == DaysDiff(last.now, last.timestamp)
        IN /\ elapsed = 0 => last.result = RatOne
           /\ elapsed = last.half_life_days => About(last.result, <<1, 2>>)
           /\ elapsed = 2 * last.half_life_days => About(last.result, <<1, 4>>)
           /\ \A older \in Timestamps :
                older <= last.timestamp =>
                    RatLeq(calculate_time_factor(older, last.now, last.half_life_days),
                           last.result)

(***************************************************************************)
(* C17.  _calculate_preference_factor(user, item) is exactly 1.0 when the  *)
(* user has no profile or the category counts total 0; otherwise it is     *)
(* 1.0 + count/total for an item whose category has a recorded count and   *)
(* 1.0 for one whose category has none; so it lies in [1.0, 2.0], and an   *)
(* item of a recorded category gets strictly more than one of an           *)
(* unrecorded category.                                                    *)
(***************************************************************************)
PreferenceFactored == last.op = "_calculate_preference_factor"

ProfilePreferences(user_id) ==
    IF user_id \in DOMAIN recommender.user_profiles
    THEN recommender.user_profiles[user_id].preferences
    ELSE EmptyDict

Confident == last.op = "_calculate_confidence_score"

BehaviorCount(user_id) ==
    IF user_id \in DOMAIN recommender.user_profiles
    THEN Len(recommender.user_profiles[user_id].behaviors)
    ELSE 0

MeanScore(recommendations) ==
    RatDiv(SumScores(recommendations), <<Len(recommendations), 1>>)

HistoryAndScoreAverage(user_id, recommendations) ==
    LET count == BehaviorCount(user_id)
        history == IF count >= FullHistory THEN RatOne ELSE Rat(count, FullHistory)
    IN RatDiv(RatAdd(history, MeanScore(recommendations)), <<2, 1>>)

C18_DefaultForAnyCandidates ==
    Confident =>
        /\ BehaviorCount(last.user_id) = 0 => last.result = <<3, 10>>
        /\ (BehaviorCount(last.user_id) > 0 /\ last.recommendations # <<>>) =>
                last.result = HistoryAndScoreAverage(last.user_id, last.recommendations)

\* As amended: an empty candidate list gives 0.0 whoever the user is, and
\* the default of 0.3 is for the non-empty lists.
C18_ZeroForNoCandidates ==
    Confident =>
        IF last.recommendations = <<>>
        THEN last.result = RatZero
        ELSE IF BehaviorCount(last.user_id) = 0
             THEN last.result = <<3, 10>>
             ELSE last.result = HistoryAndScoreAverage(last.user_id, last.recommendations)

\* A user with a full history and two candidates of mean score 0.65.
C18_Witness ==
    /\ Confident
    /\ BehaviorCount(last.user_id) >= FullHistory
    /\ Len(last.recommendations) = 2
    /\ last.result = <<33, 40>>

(***************************************************************************)
(* C19.  For any trained analyzer, importing the snapshot produced by      *)
(* export_model into a fresh analyzer reproduces the same contexts with    *)
(* the same counts, for the global scope and for a per-user scope, for     *)
(* every user id the caller may pass to export.                            *)
(***************************************************************************)
Imported == last.op = "import_model"

IsTrained(an) == DOMAIN an.transition_matrix # {}

C19_RoundTrip ==
    (Imported /\ IsTrained(analyzer)) =>
        /\ last.result = ""
        /\ IF Truthy(last.user_id)
           THEN SameTable(UserTable(importer, last.user_id),
                          UserTable(analyzer, last.user_id))
           ELSE SameTable(importer.transition_matrix, analyzer.transition_matrix)

(***************************************************************************)
(* C20.  The model_hash of a snapshot changes if and only if the           *)
(* transition data the snapshot carries changes: two snapshots, global or  *)
(* per-user, with equal transition data have equal hashes, and two with    *)
(* different transition data have different hashes.                        *)
(***************************************************************************)
TransitionData(model_data) ==
    IF "transition_matrix" \in DOMAIN model_data
    THEN model_data.transition_matrix
    ELSE EmptyDict

C20_HashIffTransitionData ==
    \A i \in DOMAIN snapshots, j \in DOMAIN snapshots :
        SameTable(TransitionData(snapshots[i].model_data),
                  TransitionData(snapshots[j].model_data))
            <=> snapshots[i].model_data.model_hash = snapshots[j].model_data.model_hash

(***************************************************************************)
(* C21.  import_model of a snapshot whose order differs from the           *)
(* analyzer's order, or that lacks the order or the transition data, ends  *)
(* in a failure for the caller, and leaves the analyzer's order and tables *)
(* as they were.                                                           *)
(***************************************************************************)
Mismatched(model_data, an) ==
    \/ "order" \notin DOMAIN model_data
    \/ "transition_matrix" \notin DOMAIN model_data
    \/ model_data.order # an.order

C21_MismatchIsFailure ==
    (Imported /\ Mismatched(last.model_data, last.pre)) =>
        /\ last.result # ""
        /\ importer = last.pre

(***************************************************************************)
(* C22.  A reader that runs while an add_user_behavior call is under way   *)
(* never sees a transition counted in a user's table and not in the global *)
(* table, or counted in the global table and not in state_counts.          *)
(***************************************************************************)
ReadByThread ==
    last.op \in {"calculate_transition_probabilities", "predict_next_behavior"}

StateCountOf(an, ctx) ==
    IF ctx \in DOMAIN an.state_counts THEN an.state_counts[ctx] ELSE 0

TableTotal(table, ctx) ==
    IF ctx \in DOMAIN table THEN SumValues(table[ctx]) ELSE 0

C22_NoPartialTransition ==
    ReadByThread =>
        /\ \A u \in DOMAIN last.pre.user_patterns :
            \A ctx \in DOMAIN last.pre.user_patterns[u], nxt \in Tokens :
                CountOf(last.pre.user_patterns[u], ctx, nxt)
                    <= CountOf(last.pre.transition_matrix, ctx, nxt)
        /\ \A ctx \in DOMAIN last.pre.transition_matrix :
                TableTotal(last.pre.transition_matrix, ctx) = StateCountOf(last.pre, ctx)

(***************************************************************************)
(* C23.  get_user_behavior_stats(user) is the empty mapping for a user     *)
(* without a table; otherwise total_behaviors is the number of transitions *)
(* trained for the user (the sum of len(tokens) - order over the user's    *)
(* effective calls, at least 1), unique_states is the number of contexts   *)
(* of the user's table (at least 1), top_behaviors is not empty, and       *)
(* model_complexity is distinct transitions / contexts, at least 1.        *)
(***************************************************************************)
StatsAsked == last.op = "get_user_behavior_stats"

\* The sum of len(tokens) - order over the calls of the user that train.
RECURSIVE TransitionsTrained(_, _, _)
TransitionsTrained(made, user_id, order) ==
    IF made = <<>> THEN 0
    ELSE (IF made[1][1] = user_id /\ Len(made[1][2]) >= order + 1
          THEN Len(made[1][2]) - order ELSE 0)
         + TransitionsTrained(Tail(made), user_id, order)

DistinctTransitions(table) ==
    Cardinality({<<ctx, nxt>> \in (DOMAIN table) \X Tokens : CountOf(table, ctx, nxt) > 0})

C23_UserStats ==
    StatsAsked =>
        LET trained_for_user == TransitionsTrained(calls, last.user_id, analyzer.order)
            table == UserTable(analyzer, last.user_id)
        IN IF trained_for_user = 0
           THEN last.result = EmptyDict
           ELSE /\ last.result.total_behaviors = trained_for_user
                /\ last.result.unique_states = Cardinality(DOMAIN table)
                /\ last.result.unique_states >= 1
                /\ last.result.top_behaviors # {}
                /\ last.result.model_complexity
                        = Rat(DistinctTransitions(table), Cardinality(DOMAIN table))
                /\ RatLeq(RatOne, last.result.model_complexity)

\* A user trained twice, whose table has fewer contexts than transitions.
C23_Witness ==
    /\ StatsAsked
    /\ Len(calls) = 2
    /\ last.result # EmptyDict
    /\ last.result.total_behaviors > last.result.unique_states
    /\ last.result.unique_states >= 2

(***************************************************************************)
(* C24.  For every behaviour type, add_to_cart included, and every item    *)
(* id, _parse_predicted_behavior applied to the token that                 *)
(* _behavior_to_sequence builds returns exactly (type value, item id).     *)
(***************************************************************************)
Parsed == last.op = "_parse_predicted_behavior"

C24_TokenRoundTrip ==
    Parsed =>
        /\ last.result.behavior_type = TextSegments(last.behavior.behavior_type)
        /\ last.result.item_id = ItemSegments(last.behavior.item_id)

(***************************************************************************)
(* C25.  After any sequence of add_user_behavior calls on the recommender, *)
(* at any privacy levels, its order-2 analyzer is untrained                *)
(* (transition_matrix, state_counts and user_patterns empty), and          *)
(* user_profiles holds one stored behavior per call.                       *)
(***************************************************************************)
RECURSIVE StoredBehaviors(_, _)
StoredBehaviors(user_profiles, users) ==
    IF users = {} THEN 0
    ELSE LET u == CHOOSE u \in users : TRUE
         IN Len(user_profiles[u].behaviors) + StoredBehaviors(user_profiles, users \ {u})

C25_AnalyzerUntrained ==
    /\ recommender.markov_analyzer = NewAnalyzer(2)
    /\ StoredBehaviors(recommender.user_profiles, DOMAIN recommender.user_profiles) = trained

\* Two calls made, for two users.
C25_Witness ==
    /\ trained = 2
    /\ Cardinality(DOMAIN recommender.user_profiles) = 2
    /\ recommender.markov_analyzer.user_patterns = EmptyDict

(***************************************************************************)
(* C26.  For an analyzer of order >= 2, generate_behavior_sequence(user,   *)
(* start, length) returns exactly [start], for every trained state, user   *)
(* and length: the first prediction is asked from a window of one token.   *)
(* Only an order-1 analyzer generates more than one element.               *)
(***************************************************************************)
C26_HigherOrderGeneratesStartOnly ==
    Generated =>
        /\ last.pre.order >= 2 => last.result = <<last.seq[1]>>
        /\ Len(last.result) > 1 => last.pre.order = 1

\* An order-2 analyzer trained with a context that begins with the start
\* token, asked for three elements.
C26_Witness ==
    /\ Generated
    /\ last.pre.order = 2
    /\ last.length = MaxGenLen
    /\ \E ctx \in DOMAIN last.pre.transition_matrix :
            ctx = <<last.seq[1], last.seq[1]>>
    /\ last.result = <<last.seq[1]>>

(***************************************************************************)
(* C27.  After any sequence of add_user_behavior calls on one analyzer, in *)
(* every state: transition_matrix[c][n] is the sum over the users u of     *)
(* user_patterns[u][c][n]; state_counts[c] is the sum over n of            *)
(* transition_matrix[c][n], and is > 0 for every existing context; and     *)
(* every context key of every table is a tuple of exactly `order` tokens.  *)
(***************************************************************************)
RECURSIVE SumOverUsers(_, _, _, _)
SumOverUsers(an, users, ctx, nxt) ==
    IF users = {} THEN 0
    ELSE LET u == CHOOSE u \in users : TRUE
         IN CountOf(an.user_patterns[u], ctx, nxt)
                + SumOverUsers(an, users \ {u}, ctx, nxt)

AllContexts(an) ==
    DOMAIN an.transition_matrix \cup DOMAIN an.state_counts
        \cup UNION {DOMAIN an.user_patterns[u] : u \in DOMAIN an.user_patterns}

C27_TablesAgree ==
    /\ \A ctx \in AllContexts(analyzer) :
        /\ \A nxt \in Tokens :
                CountOf(analyzer.transition_matrix, ctx, nxt)
                    = SumOverUsers(analyzer, DOMAIN analyzer.user_patterns, ctx, nxt)
        /\ StateCountOf(analyzer, ctx) = TableTotal(analyzer.transition_matrix, ctx)
        /\ StateCountOf(analyzer, ctx) > 0
        /\ ctx \in Contexts(analyzer.order)
    /\ \A ctx \in DOMAIN analyzer.transition_matrix :
            DictKeys(analyzer.transition_matrix[ctx]) \subseteq Tokens

\* Two users trained with the same context, counted twice in the global
\* table and once in each user's.
C27_Witness ==
    /\ Cardinality(DOMAIN analyzer.user_patterns) = 2
    /\ \E ctx \in DOMAIN analyzer.transition_matrix :
        /\ analyzer.state_counts[ctx] = 2
        /\ \A u \in DOMAIN analyzer.user_patterns :
                TableTotal(analyzer.user_patterns[u], ctx) = 1

(***************************************************************************)
(* C28.  calculate_transition_probabilities, predict_next_behavior,        *)
(* generate_behavior_sequence, get_user_behavior_stats, export_model,      *)
(* _generate_model_hash and hybrid_prediction leave transition_matrix,     *)
(* state_counts and user_patterns as they were, for every argument,        *)
(* unknown users and untrained contexts included: no lookup creates an     *)
(* empty user table, context or successor entry.                           *)
(***************************************************************************)
Queried == last.op # "init"

C28_QueriesReadOnly ==
    Queried =>
        IF last.op = "hybrid_prediction"
        THEN analyzers = last.pre
        ELSE analyzer = last.pre

\* A prediction asked for a user that has no table, from a context that no
\* table has, on an analyzer that has been trained.
C28_Witness ==
    /\ last.op = "predict_next_behavior"
    /\ IsTrained(analyzer)
    /\ last.user_id \notin DOMAIN analyzer.user_patterns
    /\ Len(last.seq) >= analyzer.order
    /\ CurrentState(last.seq, analyzer.order) \notin DOMAIN analyzer.transition_matrix
    /\ last.result = None

(***************************************************************************)
(* C29.  A snapshot holds the successor maps of the model it was taken     *)
(* from: for every context of the snapshot, the snapshot reads the counts  *)
(* the model's table of that scope has now, whatever was trained since;    *)
(* the contexts of the snapshot are those it had when it was taken; and    *)
(* what the snapshot reads is what it read after the last call on the      *)
(* model, whatever the importing analyzer imported and was trained with.   *)
(***************************************************************************)
SnapshotScope(model_data) ==
    IF "user_id" \in DOMAIN model_data
    THEN objects.model.user_patterns[model_data.user_id]
    ELSE objects.model.transition_matrix

C29_SnapshotSharesImportCopies ==
    objects.snapshot # None =>
        LET model_data == objects.snapshot[1]
            view == SnapshotView(objects.heap, model_data)
        IN /\ DOMAIN view = DOMAIN objects.at_export[1]
           /\ view = objects.after_model_call[1]
           /\ "transition_matrix" \in DOMAIN model_data =>
                LET live == Deref(objects.heap, SnapshotScope(model_data))
                IN \A state \in DOMAIN view :
                        state \in DOMAIN live /\ view[state] = live[state]

\* The model was trained after the export so that a count of the snapshot
\* changed and a context arose that the snapshot lacks, and the importing
\* analyzer was trained on a context it had imported.
C29_Witness ==
    /\ objects.snapshot # None
    /\ objects.importer # None
    /\ objects.importer_trained > 0
    /\ "transition_matrix" \in DOMAIN objects.snapshot[1]
    /\ LET model_data == objects.snapshot[1]
           view == SnapshotView(objects.heap, model_data)
           live == Deref(objects.heap, SnapshotScope(model_data))
           imported == DerefAnalyzer(objects.heap, objects.importer[1])
           copy == IF "user_id" \in DOMAIN model_data
                   THEN imported.user_patterns[model_data.user_id]
                   ELSE imported.transition_matrix
       IN /\ \E state \in DOMAIN view : view[state] # objects.at_export[1][state]
          /\ DOMAIN live # DOMAIN view
          /\ \E state \in DOMAIN view : copy[state] # view[state]

(***************************************************************************)
(* C30.  In an analyzer of the ensemble where the user has no table, the   *)
(* probabilities asked for the user are the global ones.  For a user that  *)
(* has no table in any order's analyzer, hybrid_prediction returns the     *)
(* same dict for every alpha_global, and that dict is the normalisation of *)
(* the sum, over the orders k that the recent behaviors are long enough    *)
(* for, of 1/k times the global probabilities of the current context.      *)
(***************************************************************************)
Hybrid == last.op = "hybrid_prediction"

UnknownTo(ans, user_id) == \A order \in DOMAIN ans : user_id \notin DOMAIN ans[order].user_patterns

\* count / total of every successor of the context in the global table
GlobalProbability(an, current_state) ==
    IF current_state \in DOMAIN an.transition_matrix
       /\ SumValues(an.transition_matrix[current_state]) > 0
    THEN [next_state \in DictKeys(an.transition_matrix[current_state]) |->
            Rat(DictGet(an.transition_matrix[current_state], next_state),
                SumValues(an.transition_matrix[current_state]))]
    ELSE EmptyDict

RECURSIVE WeightedGlobalSum(_, _, _)
WeightedGlobalSum(ans, recent_behaviors, k) ==
    IF k \notin DOMAIN ans
    THEN EmptyDict
    ELSE LET rest == WeightedGlobalSum(ans, recent_behaviors, k + 1)
             here == IF Len(recent_behaviors) < k
                     THEN EmptyDict
                     ELSE GlobalProbability(ans[k],
                            SubSeq(recent_behaviors, Len(recent_behaviors) - k + 1,
                                   Len(recent_behaviors)))
         IN [next_state \in DOMAIN here \cup DOMAIN rest |->
                RatAdd(IF next_state \in DOMAIN here
                       THEN RatMul(<<1, k>>, here[next_state]) ELSE RatZero,
                       IF next_state \in DOMAIN rest THEN rest[next_state] ELSE RatZero)]

====
